---- MODULE Spec2Model ----
(***************************************************************************)
(* Model of the ConvoCerto accompaniment core:                             *)
(*   - AccompanimentEngine (adaptive engine, wait/listen/play machine)     *)
(*   - ScoreFollower (tempo/position hypothesis tracker)                   *)
(*   - getRoleForMeasure (role forward-fill)                               *)
(* Numbers that are floats in the source are exact rationals <<n, d>>      *)
(* here (d > 0, lowest terms).  Time is counted in milliseconds and moves  *)
(* from one timer deadline to the next; timers fire in deadline order,     *)
(* then in creation order, as the host's timer queue does.  Calls from     *)
(* outside arrive at these instants, before or after the timers due.       *)
(***************************************************************************)
EXTENDS Integers, Sequences, FiniteSets, TLC

(***************************************************************************)
(* Exact rational arithmetic                                               *)
(***************************************************************************)
Abs(x) == IF x < 0 THEN -x ELSE x

RECURSIVE GCD(_, _)
GCD(a, b) == IF b = 0 THEN a ELSE GCD(b, a % b)

\* the rational n/d in lowest terms with a positive denominator
Q(n, d) ==
  LET g == GCD(Abs(n), Abs(d))
      s == IF d < 0 THEN -1 ELSE 1
  IN  <<(s * n) \div g, (s * d) \div g>>

QInt(n) == <<n, 1>>
\* sums and products are reduced before they are multiplied out, to keep the
\* intermediate integers small
QAdd(a, b) ==
  LET g == GCD(a[2], b[2])
  IN  Q(a[1] * (b[2] \div g) + b[1] * (a[2] \div g), (a[2] \div g) * b[2])
QNeg(a) == <<-a[1], a[2]>>
QSub(a, b) == QAdd(a, QNeg(b))
QMul(a, b) ==
  LET g1 == GCD(Abs(a[1]), b[2])
      g2 == GCD(Abs(b[1]), a[2])
  IN  <<(a[1] \div g1) * (b[1] \div g2), (a[2] \div g2) * (b[2] \div g1)>>
\* 1 / b, for b # 0
QInv(b) == IF b[1] < 0 THEN <<-b[2], -b[1]>> ELSE <<b[2], b[1]>>
QDiv(a, b) == QMul(a, QInv(b))
QLt(a, b) ==
  LET g == GCD(a[2], b[2])
  IN  a[1] * (b[2] \div g) < b[1] * (a[2] \div g)
QLe(a, b) == ~QLt(b, a)
QAbs(a) == <<Abs(a[1]), a[2]>>
QMax(a, b) == IF QLt(a, b) THEN b ELSE a
QMin(a, b) == IF QLt(b, a) THEN b ELSE a
QFloor(a) == a[1] \div a[2]
\* Math.max(lo, Math.min(hi, x))
QClamp(lo, hi, x) == QMax(lo, QMin(hi, x))

QZero == QInt(0)
QOne == QInt(1)

(***************************************************************************)
(* Program constants                                                       *)
(***************************************************************************)
NUM_TEMPO_HYPOTHESES == 5
TEMPO_RANGE_FACTOR == Q(3, 10)
PITCH_MATCH_PROB == Q(80, 100)
PITCH_NEAR_PROB == Q(15, 100)
PITCH_MISS_PROB == Q(5, 100)
\* computeObservation: const searchWindow = 10
searchWindow == 10
\* startAutoPlay: const tickMs = 50
tickMs == 50
\* the delay of the listening -> playing callback after a note or a wait timer
NoteListenDelayMs == 500
\* the delay of the listening -> playing callback after a motion cue
CueListenDelayMs == 300
\* AccompanimentEngine.scheduleAccompaniment: const lookAhead = 2
lookAhead == 2
\* the fallback base tempo (this.score?.tempo ?? 120) and the initial tempo
DefaultTempo == 120
\* the fallback this.score?.timeSignature.beats ?? 4
DefaultBeats == 4

(***************************************************************************)
(* Bounds of the model                                                     *)
(***************************************************************************)
\* calls of loadScore explored in one behaviour
MaxLoads == 1
\* calls of start()
MaxStarts == 2
\* calls of stop()
MaxStops == 1
\* calls of processMidiNote
MaxNotes == 1
\* motion cues delivered
MaxCues == 1
\* calls of PlaybackEngine.setTempo
MaxTempos == 1
\* calls of mutePart and unmutePart
MaxMutes == 2

(***************************************************************************)
(* Types (types.ts)                                                        *)
(***************************************************************************)
EngineStates == {"idle", "waiting", "listening", "playing"}

Role(mode, strength, factor) ==
  [mode |-> mode, strength |-> strength, factor |-> factor]

\* an annotation without a role (role?: undefined)
NoRole == Role("none", "none", QZero)

\* WaitDirective; duration is in seconds.  A directive without duration has
\* duration 0: the code tests the duration for truthiness, so an absent and a
\* zero duration are the same to it.
Wait(type, duration) == [type |-> type, duration |-> duration]

\* an annotation without a wait directive (wait?: undefined)
NoWait == Wait("none", QZero)

Annotation(n, role, wait) == [measureNumber |-> n, role |-> role, wait |-> wait]

\* NoteEvent (durationBeats and velocity are never read by the core)
Note(pitch, startBeat, partIndex) ==
  [pitch |-> pitch, startBeat |-> startBeat, partIndex |-> partIndex]

Part(isSolo, notes) == [isSolo |-> isSolo, notes |-> notes]

MotionCueTypes == {"breath", "nod", "sway", "preparation"}

(***************************************************************************)
(* Scores given to loadScore.  The tempo is high so that a 50 ms tick      *)
(* moves the clock by about one beat and a run reaches the end of the      *)
(* score within a few ticks.                                               *)
(***************************************************************************)
SoloNotes == <<Note(60, QInt(0), 0), Note(62, Q(1, 2), 0),
               Note(64, QInt(1), 0), Note(67, Q(3, 2), 0)>>
PianoNotes == <<Note(48, QInt(0), 1), Note(52, QInt(1), 1), Note(55, Q(3, 2), 1)>>

\* ParsedScore; loaded is FALSE only for the null reference
BaseScore ==
  [loaded |-> TRUE,
   tempo |-> QInt(1200),
   beats |-> 1,
   parts |-> <<Part(TRUE, SoloNotes), Part(FALSE, PianoNotes)>>,
   measures |-> <<>>,
   playbackOrder |-> <<0, 1>>,
   measureNumbers |-> <<1, 2>>]

\* private score: ParsedScore | null = null
NoScore ==
  [loaded |-> FALSE, tempo |-> QInt(DefaultTempo), beats |-> DefaultBeats,
   parts |-> <<>>, measures |-> <<>>, playbackOrder |-> <<>>,
   measureNumbers |-> <<>>]

\* measure 1 waits 0.4 s, measure 2 carries an open wait and a lead role
ScoreTimed ==
  [BaseScore EXCEPT !.measures =
     <<Annotation(1, Role("follow", "moderate", Q(3, 10)), Wait("wait", Q(4, 10))),
       Annotation(2, Role("lead", "strong", Q(9, 10)), Wait("wait", QZero))>>]

\* measure 1 waits for a trigger (a wait without duration)
ScoreOpen ==
  [BaseScore EXCEPT !.measures =
     <<Annotation(1, Role("follow", "strong", Q(1, 10)), Wait("wait", QZero))>>]

\* measure 1 carries a listen directive
ScoreListen ==
  [BaseScore EXCEPT !.measures =
     <<Annotation(1, NoRole, Wait("listen", QZero))>>]

\* no wait directive on measure 1: start() plays at once
ScorePlain ==
  [BaseScore EXCEPT !.measures =
     <<Annotation(2, Role("lead", "moderate", Q(7, 10)), NoWait)>>]

Scores == {ScoreTimed, ScoreOpen, ScoreListen, ScorePlain}

\* array[i] ?? dflt for a 0-based index i
At(seq, i, dflt) == IF i >= 0 /\ i < Len(seq) THEN seq[i + 1] ELSE dflt

(***************************************************************************)
(* getRoleForMeasure                                                       *)
(***************************************************************************)
DefaultRole == Role("follow", "moderate", Q(3, 10))

RECURSIVE RoleScan(_, _, _, _)
RoleScan(measures, i, measureNumber, activeRole) ==
  IF i > Len(measures) THEN activeRole
  ELSE IF measures[i].measureNumber > measureNumber THEN activeRole
  ELSE RoleScan(measures, i + 1, measureNumber,
                IF measures[i].role # NoRole THEN measures[i].role ELSE activeRole)

\* getRoleForMeasure with the scan ending at measureNumber itself (>= in
\* place of > in the test before break)
getRoleForMeasureStrict(measures, measureNumber) ==
  RoleScan(measures, 1, measureNumber - 1, DefaultRole)

getRoleForMeasure(measures, measureNumber) ==
  RoleScan(measures, 1, measureNumber, DefaultRole)

(***************************************************************************)
(* ScoreFollower.  The follower is a record sf; each method is an operator *)
(* from the follower (and its arguments) to the follower after the call.   *)
(* lastNoteTime is not kept: a message's timestamp is chosen by the        *)
(* caller, so deltaMs = timestamp - lastNoteTime is the message's input.   *)
(***************************************************************************)
Hypothesis(position, tempo, probability) ==
  [position |-> position, tempo |-> tempo, probability |-> probability]

\* initStates
initStates(baseTempo) ==
  [t \in 1..NUM_TEMPO_HYPOTHESES |->
     LET tempoRatio ==
           QAdd(QSub(QOne, TEMPO_RANGE_FACTOR),
                QDiv(QMul(QMul(QInt(2), TEMPO_RANGE_FACTOR), QInt(t - 1)),
                     QInt(NUM_TEMPO_HYPOTHESES - 1)))
     IN  Hypothesis(0, QMul(baseTempo, tempoRatio),
                    QDiv(QOne, QInt(NUM_TEMPO_HYPOTHESES)))]

\* reset
SFreset(sf) ==
  [sf EXCEPT !.currentPosition = 0, !.states = initStates(sf.baseTempo)]

\* the follower after construction
NewScoreFollower ==
  [soloNotes |-> <<>>, baseTempo |-> QInt(DefaultTempo),
   states |-> initStates(QInt(DefaultTempo)), currentPosition |-> 0,
   isActive |-> FALSE, isPaused |-> FALSE, beatsPerMeasure |-> DefaultBeats,
   playbackOrder |-> <<>>, measureNumbers |-> <<>>]

\* insertion of note n into an ascending list, after the notes of equal
\* startBeat (Array.prototype.sort is stable)
RECURSIVE InsertByBeat(_, _)
InsertByBeat(sorted, n) ==
  IF sorted = <<>> THEN <<n>>
  ELSE IF QLt(n.startBeat, Head(sorted).startBeat) THEN <<n>> \o sorted
  ELSE <<Head(sorted)>> \o InsertByBeat(Tail(sorted), n)

\* notes.sort((a, b) => a.startBeat - b.startBeat)
RECURSIVE SortByBeat(_)
SortByBeat(notes) ==
  IF notes = <<>> THEN <<>>
  ELSE InsertByBeat(SortByBeat(SubSeq(notes, 1, Len(notes) - 1)), notes[Len(notes)])

\* loadScore
SFloadScore(sf, soloNotes, tempo, beatsPerMeasure, playbackOrder, measureNumbers) ==
  SFreset([sf EXCEPT !.soloNotes = SortByBeat(soloNotes),
                     !.baseTempo = tempo,
                     !.beatsPerMeasure = beatsPerMeasure,
                     !.playbackOrder = playbackOrder,
                     !.measureNumbers = measureNumbers])

\* start
SFstart(sf) == [sf EXCEPT !.isActive = TRUE, !.isPaused = FALSE]

\* stop
SFstop(sf) == SFreset([sf EXCEPT !.isActive = FALSE])

Min2(a, b) == IF a < b THEN a ELSE b
Max2(a, b) == IF a > b THEN a ELSE b

\* computeObservation: the likelihood of the pitch at the score positions
\* start .. end - 1 around the current position (0-based)
computeObservation(sf, pitch) ==
  LET start == Max2(0, sf.currentPosition - 2)
      end == Min2(Len(sf.soloNotes), sf.currentPosition + searchWindow)
  IN  [i \in start..(end - 1) |->
         LET note == sf.soloNotes[i + 1]
         IN  IF note.pitch = pitch THEN PITCH_MATCH_PROB
             ELSE IF Abs(note.pitch - pitch) <= 2 THEN PITCH_NEAR_PROB
             ELSE PITCH_MISS_PROB]

\* the loop of advanceStates that finds the position in i .. searchEnd whose
\* startBeat is closest to targetBeat; hasBest is FALSE while bestDist is
\* Infinity
\* the search with dist <= bestDist: the last of the closest notes
RECURSIVE ClosestPosLast(_, _, _, _, _, _, _)
ClosestPosLast(notes, i, searchEnd, targetBeat, bestPos, bestDist, hasBest) ==
  IF i > searchEnd THEN bestPos
  ELSE LET dist == QAbs(QSub(notes[i + 1].startBeat, targetBeat))
       IN  IF ~hasBest \/ QLe(dist, bestDist)
           THEN ClosestPosLast(notes, i + 1, searchEnd, targetBeat, i, dist, TRUE)
           ELSE ClosestPosLast(notes, i + 1, searchEnd, targetBeat, bestPos, bestDist, TRUE)

RECURSIVE ClosestPos(_, _, _, _, _, _, _)
ClosestPos(notes, i, searchEnd, targetBeat, bestPos, bestDist, hasBest) ==
  IF i > searchEnd THEN bestPos
  ELSE LET dist == QAbs(QSub(notes[i + 1].startBeat, targetBeat))
       IN  IF ~hasBest \/ QLt(dist, bestDist)
           THEN ClosestPos(notes, i + 1, searchEnd, targetBeat, i, dist, TRUE)
           ELSE ClosestPos(notes, i + 1, searchEnd, targetBeat, bestPos, bestDist, TRUE)

\* the body of the loop of advanceStates with the implied tempo taken as it
\* is, without the clamp to [0.3, 3.0] x baseTempo
advanceStateUnclamped(sf, state, deltaMs, role) ==
  LET beatsPerMs == QDiv(state.tempo, QInt(60000))
      expectedBeatsElapsed == QMul(beatsPerMs, QInt(deltaMs))
      tempoAdaptRate == IF role.mode = "follow" THEN Q(3, 10) ELSE Q(1, 10)
      currentBeat == At(sf.soloNotes, state.position, Note(0, QZero, 0)).startBeat
      targetBeat == QAdd(currentBeat, expectedBeatsElapsed)
      searchEnd == Min2(Len(sf.soloNotes) - 1, state.position + 5)
      bestPos == ClosestPos(sf.soloNotes, state.position, searchEnd, targetBeat,
                            state.position, QZero, FALSE)
      actualBeatsElapsed ==
        QSub(sf.soloNotes[bestPos + 1].startBeat,
             sf.soloNotes[Max2(0, bestPos - 1) + 1].startBeat)
      impliedTempo == QMul(QDiv(actualBeatsElapsed, QInt(deltaMs)), QInt(60000))
  IN  [state EXCEPT
         !.position = bestPos,
         !.tempo =
           IF deltaMs > 0 /\ bestPos > 0 /\ QLt(QZero, actualBeatsElapsed)
           THEN QAdd(QMul(state.tempo, QSub(QOne, tempoAdaptRate)),
                     QMul(impliedTempo, tempoAdaptRate))
           ELSE state.tempo]

\* the body of the loop of advanceStates for one hypothesis
advanceState(sf, state, deltaMs, role) ==
  LET beatsPerMs == QDiv(state.tempo, QInt(60000))
      expectedBeatsElapsed == QMul(beatsPerMs, QInt(deltaMs))
      tempoAdaptRate == IF role.mode = "follow" THEN Q(3, 10) ELSE Q(1, 10)
      currentBeat == At(sf.soloNotes, state.position, Note(0, QZero, 0)).startBeat
      targetBeat == QAdd(currentBeat, expectedBeatsElapsed)
      searchEnd == Min2(Len(sf.soloNotes) - 1, state.position + 5)
      bestPos == ClosestPos(sf.soloNotes, state.position, searchEnd, targetBeat,
                            state.position, QZero, FALSE)
      actualBeatsElapsed ==
        QSub(sf.soloNotes[bestPos + 1].startBeat,
             sf.soloNotes[Max2(0, bestPos - 1) + 1].startBeat)
      impliedTempo == QMul(QDiv(actualBeatsElapsed, QInt(deltaMs)), QInt(60000))
      minTempo == QMul(sf.baseTempo, Q(3, 10))
      maxTempo == QMul(sf.baseTempo, QInt(3))
      clamped == QClamp(minTempo, maxTempo, impliedTempo)
  IN  [state EXCEPT
         !.position = bestPos,
         !.tempo =
           IF deltaMs > 0 /\ bestPos > 0 /\ QLt(QZero, actualBeatsElapsed)
           THEN QAdd(QMul(state.tempo, QSub(QOne, tempoAdaptRate)),
                     QMul(clamped, tempoAdaptRate))
           ELSE state.tempo]

\* advanceStates
advanceStates(sf, deltaMs, role) ==
  [sf EXCEPT !.states =
     [t \in DOMAIN sf.states |-> advanceState(sf, sf.states[t], deltaMs, role)]]

\* updateWithObservation
updateWithObservation(sf, observations) ==
  [sf EXCEPT !.states =
     [t \in DOMAIN sf.states |->
        LET state == sf.states[t]
            obsProb == IF state.position \in DOMAIN observations
                       THEN observations[state.position]
                       ELSE PITCH_MISS_PROB
        IN  [state EXCEPT !.probability = QMul(state.probability, obsProb)]]]

\* states.reduce((s, st) => s + st.probability, 0)
RECURSIVE SumProb(_, _)
SumProb(states, n) ==
  IF n = 0 THEN QZero ELSE QAdd(SumProb(states, n - 1), states[n].probability)

\* normalizeStates without the division by the sum
normalizeStatesUnscaled(sf) ==
  LET sum == SumProb(sf.states, Len(sf.states))
      uniform == QDiv(QOne, QInt(Len(sf.states)))
  IN  [sf EXCEPT !.states =
         [t \in DOMAIN sf.states |->
            [sf.states[t] EXCEPT !.probability =
               IF QLt(QZero, sum) THEN sf.states[t].probability ELSE uniform]]]

\* normalizeStates
normalizeStates(sf) ==
  LET sum == SumProb(sf.states, Len(sf.states))
      uniform == QDiv(QOne, QInt(Len(sf.states)))
  IN  [sf EXCEPT !.states =
         [t \in DOMAIN sf.states |->
            [sf.states[t] EXCEPT !.probability =
               IF QLt(QZero, sum) THEN QDiv(sf.states[t].probability, sum)
               ELSE uniform]]]

\* getBestState: the index (1-based) of the first hypothesis of greatest
\* probability
RECURSIVE BestFrom(_, _, _)
BestFrom(states, t, best) ==
  IF t > Len(states) THEN best
  ELSE BestFrom(states, t + 1,
                IF QLt(states[best].probability, states[t].probability)
                THEN t ELSE best)

getBestState(sf) == sf.states[BestFrom(sf.states, 1, 1)]

\* MidiNoteMessage; deltaMs stands for timestamp - lastNoteTime
Msg(type, note, deltaMs) == [type |-> type, note |-> note, deltaMs |-> deltaMs]

\* processNote returns early, without touching the follower
SFnoop(sf, msg) ==
  \/ ~sf.isActive
  \/ sf.isPaused
  \/ msg.type # "noteon"
  \/ Len(sf.soloNotes) = 0

\* processNote: the follower after the call
SFprocessNote(sf, msg, role) ==
  IF SFnoop(sf, msg) THEN sf
  ELSE LET observations == computeObservation(sf, msg.note)
           advanced == advanceStates(sf, msg.deltaMs, role)
           updated == updateWithObservation(advanced, observations)
           normalized == normalizeStates(updated)
           best == getBestState(normalized)
       IN  [normalized EXCEPT !.currentPosition = best.position]

\* processNote: the ScoreFollowerState given to the state-update callback
SFstate(sf) ==
  LET best == getBestState(sf)
      currentBeat == At(sf.soloNotes, sf.currentPosition, Note(0, QZero, 0)).startBeat
      playbackIndex == QFloor(QDiv(currentBeat, QInt(sf.beatsPerMeasure)))
      currentMeasure ==
        IF Len(sf.playbackOrder) > 0 /\ Len(sf.measureNumbers) > 0
        THEN At(sf.measureNumbers, At(sf.playbackOrder, playbackIndex, 0), 0)
        ELSE playbackIndex + 1
  IN  [currentBeat |-> currentBeat, currentMeasure |-> currentMeasure,
       estimatedTempo |-> best.tempo, confidence |-> best.probability,
       isPlaying |-> sf.isActive]

(***************************************************************************)
(* AccompanimentEngine: state                                              *)
(***************************************************************************)
VARIABLES
  score,            \* the loaded ParsedScore, NoScore for null
  scoreFollower,    \* the engine's ScoreFollower
  accompNotes,      \* the accompaniment notes, ascending by startBeat
  engineState,
  currentRole,
  currentMeasure,
  currentBeat,
  tempo,
  leadFollowRatio,
  playbackTimer,    \* handle of the wait-duration timer, 0 for null
  accompIndex,      \* the accompaniment-note cursor
  autoPlayTimer,    \* handle of the tick interval, 0 for null
  autoPlayBeat,
  autoPlayMode,
  mutedParts,
  timers,           \* the host's pending timers, in creation order
  noteOutput,       \* the calls of onNoteOutput made by the latest step
  lastOp,           \* the operation or callback that made the latest step
  listenBy,         \* what made the latest entry into listening
  listenFor,        \* ms spent in listening since that entry
  sinceStart,       \* ms since the latest start() on a timed wait, while no
                    \* other call has been made since; -1 otherwise
  engineKind,             \* the class of the engine: "adaptive" or "fixed"
  lastCue,          \* the motion cue given by the latest step, if any
  prevState,        \* engineState before the latest step
  afterStop,        \* TRUE from a stop() to the next start() or loadScore()
  skipped,          \* the positions of accompNotes the cursor passed while
                    \* their part was muted, since the cursor was last reset
  stateOutput,      \* the calls of onStateChange made by the latest step
  sinceEmit,        \* performance.now() - lastEmitTime of the fixed-tempo
                    \* engine, up to emitIntervalMs
  tickEmitAgo,      \* ms since a tick that went on playing called
                    \* onStateChange, up to emitIntervalMs; emitIntervalMs
                    \* once another handler has called it since
  played,           \* the notes given to onNoteOutput since the cursor was
                    \* last reset, in the order of the calls
  returned,         \* the Set object the latest getMutedParts() returned
  lastPart,         \* the part index given to the latest operation, -1
                    \* when it took none
  excluded,         \* soloPartIndex or excludePartIndex of the latest
                    \* loadScore, -1 when not given
  nLoads, nStarts, nStops, nNotes, nCues, nTempos, nMutes  \* calls made so far

vars ==
  <<score, scoreFollower, accompNotes, engineState, currentRole, currentMeasure,
    currentBeat, tempo, leadFollowRatio, playbackTimer, accompIndex,
    autoPlayTimer, autoPlayBeat, autoPlayMode, mutedParts, timers, noteOutput,
    lastOp, listenBy, listenFor, sinceStart, engineKind, lastCue, prevState,
    afterStop, skipped, stateOutput, sinceEmit, tickEmitAgo, played, returned,
    lastPart, excluded, nLoads, nStarts, nStops, nNotes, nCues, nTempos, nMutes>>

\* the engine and the host's timer queue as one record, for the operators
\* that model the methods
Self ==
  [score |-> score, scoreFollower |-> scoreFollower, accompNotes |-> accompNotes,
   engineState |-> engineState, currentRole |-> currentRole,
   currentMeasure |-> currentMeasure, currentBeat |-> currentBeat,
   tempo |-> tempo, leadFollowRatio |-> leadFollowRatio,
   playbackTimer |-> playbackTimer, accompIndex |-> accompIndex,
   autoPlayTimer |-> autoPlayTimer, autoPlayBeat |-> autoPlayBeat,
   autoPlayMode |-> autoPlayMode, mutedParts |-> mutedParts,
   timers |-> timers, noteOutput |-> <<>>, stateOutput |-> <<>>,
   sinceEmit |-> sinceEmit, returned |-> returned]

\* PlaybackEngine: private readonly emitIntervalMs = 200
emitIntervalMs == 200

\* no Set has been returned by getMutedParts yet
NoSet == [set |-> {}, shared |-> FALSE, given |-> FALSE]

\* the engine after construction; lastEmitTime = 0 lies at least
\* emitIntervalMs before any tick
NewEngine ==
  [score |-> NoScore, scoreFollower |-> NewScoreFollower, accompNotes |-> <<>>,
   engineState |-> "idle", currentRole |-> DefaultRole, currentMeasure |-> 1,
   currentBeat |-> QZero, tempo |-> QInt(DefaultTempo),
   leadFollowRatio |-> Q(3, 10), playbackTimer |-> 0, accompIndex |-> 0,
   autoPlayTimer |-> 0, autoPlayBeat |-> QZero, autoPlayMode |-> FALSE,
   mutedParts |-> {}, timers |-> <<>>, noteOutput |-> <<>>,
   stateOutput |-> <<>>, sinceEmit |-> emitIntervalMs, returned |-> NoSet]

(***************************************************************************)
(* The host's timers: setTimeout, setInterval, clearTimeout, clearInterval *)
(***************************************************************************)
Timer(id, kind, rem) == [id |-> id, kind |-> kind, rem |-> rem]

TimerIds(e) ==
  {e.timers[i].id : i \in DOMAIN e.timers} \cup {e.playbackTimer, e.autoPlayTimer}

\* a handle no pending timer and no kept handle uses
FreshId(e) == CHOOSE n \in 1..(Cardinality(TimerIds(e)) + 1) : n \notin TimerIds(e)

\* setTimeout / setInterval: the timer joins the queue
setTimer(e, kind, ms) ==
  [e EXCEPT !.timers = Append(@, Timer(FreshId(e), kind, ms))]

RECURSIVE DropId(_, _)
DropId(ts, id) ==
  IF ts = <<>> THEN <<>>
  ELSE IF Head(ts).id = id THEN DropId(Tail(ts), id)
  ELSE <<Head(ts)>> \o DropId(Tail(ts), id)

\* clearTimeout / clearInterval
clearTimer(e, id) == [e EXCEPT !.timers = DropId(@, id)]

\* the next timer to fire: the first in creation order among those due
Due(ts) == {i \in DOMAIN ts : ts[i].rem = 0}
NextDue(ts) == CHOOSE i \in Due(ts) : \A j \in Due(ts) : i <= j

(***************************************************************************)
(* AccompanimentEngine: methods, as operators on the record                *)
(***************************************************************************)
\* AccompanimentEngine.getState
getState(e) ==
  [engineState |-> e.engineState, currentRole |-> e.currentRole,
   currentMeasure |-> e.currentMeasure, currentBeat |-> e.currentBeat,
   tempo |-> e.tempo, leadFollowRatio |-> e.leadFollowRatio]

\* emitState without the call of onStateChange
emitStateSilent(e) == e

\* emitState calls onStateChange with getState()
emitState(e) == [e EXCEPT !.stateOutput = Append(@, getState(e))]

\* stopAutoPlay
stopAutoPlay(e) ==
  [(IF e.autoPlayTimer # 0
    THEN [clearTimer(e, e.autoPlayTimer) EXCEPT !.autoPlayTimer = 0]
    ELSE e)
   EXCEPT !.autoPlayMode = FALSE]

\* startAutoPlay without the call of stopAutoPlay
startAutoPlayStacking(e) ==
  LET e1 == [e EXCEPT !.autoPlayMode = TRUE, !.autoPlayBeat = e.currentBeat]
      id == FreshId(e1)
  IN  [setTimer(e1, "tick", tickMs) EXCEPT !.autoPlayTimer = id]

\* startAutoPlay: the interval's callback is tickCallback
startAutoPlay(e) ==
  LET e1 == [stopAutoPlay(e) EXCEPT !.autoPlayMode = TRUE,
                                    !.autoPlayBeat = e.currentBeat]
      id == FreshId(e1)
  IN  [setTimer(e1, "tick", tickMs) EXCEPT !.autoPlayTimer = id]

\* stop without the reset of currentBeat
stopKeepingBeat(e) ==
  LET e1 == stopAutoPlay([e EXCEPT !.engineState = "idle",
                                   !.scoreFollower = SFstop(@)])
      e2 == [e1 EXCEPT !.accompIndex = 0,
                       !.currentMeasure = At(e.score.measureNumbers, 0, 0),
                       !.autoPlayBeat = QZero]
      e3 == IF e2.playbackTimer # 0
            THEN [clearTimer(e2, e2.playbackTimer) EXCEPT !.playbackTimer = 0]
            ELSE e2
  IN  emitState(e3)

\* stop
stop(e) ==
  LET e1 == stopAutoPlay([e EXCEPT !.engineState = "idle",
                                   !.scoreFollower = SFstop(@)])
      e2 == [e1 EXCEPT !.accompIndex = 0,
                       !.currentBeat = QZero,
                       !.currentMeasure = At(e.score.measureNumbers, 0, 0),
                       !.autoPlayBeat = QZero]
      e3 == IF e2.playbackTimer # 0
            THEN [clearTimer(e2, e2.playbackTimer) EXCEPT !.playbackTimer = 0]
            ELSE e2
  IN  emitState(e3)

\* the loop of scheduleAccompaniment
\* the emission loop without the test of mutedParts
RECURSIVE ScheduleLoopIgnoringMute(_, _)
ScheduleLoopIgnoringMute(e, targetBeat) ==
  IF /\ e.accompIndex < Len(e.accompNotes)
     /\ QLe(e.accompNotes[e.accompIndex + 1].startBeat, targetBeat)
  THEN LET note == e.accompNotes[e.accompIndex + 1]
           beatDelta == QSub(note.startBeat, e.currentBeat)
           msPerBeat == QDiv(QInt(60000), e.tempo)
           delayMs == QMax(QZero, QMul(beatDelta, msPerBeat))
       IN  ScheduleLoopIgnoringMute(
             [e EXCEPT !.noteOutput =
                         Append(@, [note |-> note, time |-> delayMs]),
                       !.accompIndex = @ + 1],
             targetBeat)
  ELSE e

\* the notes at the positions in ps of notes, in order, whose part is not in muted
RECURSIVE NotesAt(_, _, _, _)
NotesAt(notes, ps, i, muted) ==
  IF i > Len(notes) THEN <<>>
  ELSE (IF i \in ps /\ notes[i].partIndex \notin muted
        THEN <<[note |-> notes[i], time |-> QZero]>> ELSE <<>>)
       \o NotesAt(notes, ps, i + 1, muted)

\* the emission loop that keeps the notes it passed while muted and emits
\* them once their part is unmuted
RECURSIVE ScheduleLoopReplaying(_, _)
ScheduleLoopReplaying(e, targetBeat) ==
  IF /\ e.accompIndex < Len(e.accompNotes)
     /\ QLe(e.accompNotes[e.accompIndex + 1].startBeat, targetBeat)
  THEN LET note == e.accompNotes[e.accompIndex + 1]
           beatDelta == QSub(note.startBeat, e.currentBeat)
           msPerBeat == QDiv(QInt(60000), e.tempo)
           delayMs == QMax(QZero, QMul(beatDelta, msPerBeat))
       IN  IF note.partIndex \in e.mutedParts
           THEN ScheduleLoopReplaying([e EXCEPT !.accompIndex = @ + 1], targetBeat)
           ELSE ScheduleLoopReplaying(
                  [e EXCEPT !.noteOutput =
                              Append(@, [note |-> note, time |-> delayMs]),
                            !.accompIndex = @ + 1],
                  targetBeat)
  ELSE [e EXCEPT !.noteOutput = @ \o NotesAt(e.accompNotes, skipped, 1, e.mutedParts)]

RECURSIVE ScheduleLoop(_, _)
ScheduleLoop(e, targetBeat) ==
  IF /\ e.accompIndex < Len(e.accompNotes)
     /\ QLe(e.accompNotes[e.accompIndex + 1].startBeat, targetBeat)
  THEN LET note == e.accompNotes[e.accompIndex + 1]
           beatDelta == QSub(note.startBeat, e.currentBeat)
           msPerBeat == QDiv(QInt(60000), e.tempo)
           delayMs == QMax(QZero, QMul(beatDelta, msPerBeat))
       IN  IF note.partIndex \in e.mutedParts
           THEN ScheduleLoop([e EXCEPT !.accompIndex = @ + 1], targetBeat)
           ELSE ScheduleLoop(
                  [e EXCEPT !.noteOutput =
                              Append(@, [note |-> note, time |-> delayMs]),
                            !.accompIndex = @ + 1],
                  targetBeat)
  ELSE e

\* scheduleAccompaniment
scheduleAccompaniment(e) ==
  IF e.engineState # "playing" /\ e.engineState # "listening" THEN e
  ELSE ScheduleLoop(e, QAdd(e.currentBeat, QInt(lookAhead)))

\* the role update shared by the tracker callback and the tick
updateRole(e) ==
  LET newRole == getRoleForMeasure(e.score.measures, e.currentMeasure)
  IN  IF newRole.mode # e.currentRole.mode
         \/ newRole.strength # e.currentRole.strength
      THEN [e EXCEPT !.currentRole = newRole, !.leadFollowRatio = newRole.factor]
      ELSE e

\* the tempo blend of the tracker callback without the clamp
blendedTempoUnclamped(baseTempo, followerTempo, leadFollowRatio_) ==
  QAdd(QMul(baseTempo, leadFollowRatio_),
       QMul(followerTempo, QSub(QOne, leadFollowRatio_)))

\* the tempo blend of the tracker callback with the two weights exchanged
blendedTempoSwapped(baseTempo, followerTempo, leadFollowRatio_) ==
  QClamp(QMul(baseTempo, Q(1, 2)), QMul(baseTempo, QInt(2)),
         QAdd(QMul(baseTempo, QSub(QOne, leadFollowRatio_)),
              QMul(followerTempo, leadFollowRatio_)))

\* the tempo the tracker callback sets: the blend of the base tempo and the
\* tracker's tempo, clamped
blendedTempo(baseTempo, followerTempo, leadFollowRatio_) ==
  LET minTempo == QMul(baseTempo, Q(1, 2))
      maxTempo == QMul(baseTempo, QInt(2))
      blended == QAdd(QMul(baseTempo, leadFollowRatio_),
                      QMul(followerTempo, QSub(QOne, leadFollowRatio_)))
  IN  QClamp(minTempo, maxTempo, blended)

\* the tracker callback with the two weights of the clock correction exchanged
onStateUpdateSwapped(e, state) ==
  LET blend == QSub(QOne, e.leadFollowRatio)
      e1 == IF e.autoPlayMode /\ QLt(Q(3, 10), state.confidence)
            THEN [e EXCEPT !.autoPlayBeat =
                    QAdd(QMul(e.autoPlayBeat, blend),
                         QMul(state.currentBeat, e.leadFollowRatio))]
            ELSE e
      e2 == [e1 EXCEPT !.currentBeat =
               IF e1.autoPlayMode THEN e1.autoPlayBeat ELSE state.currentBeat]
      playbackIndex == QFloor(QDiv(e2.autoPlayBeat, QInt(e2.score.beats)))
      e3 == [e2 EXCEPT !.currentMeasure =
               IF e2.autoPlayMode /\ e2.score.loaded
               THEN At(e2.score.measureNumbers,
                       At(e2.score.playbackOrder, playbackIndex, 0), 0)
               ELSE state.currentMeasure]
      e4 == IF e3.score.loaded THEN updateRole(e3) ELSE e3
      followerTempo == state.estimatedTempo
      baseTempo == e4.score.tempo
      e5 == [e4 EXCEPT !.tempo =
               blendedTempo(baseTempo, followerTempo, e4.leadFollowRatio)]
  IN  emitState(scheduleAccompaniment(e5))

\* the callback given to scoreFollower.setStateUpdateCallback
onStateUpdate(e, state) ==
  LET blend == QSub(QOne, e.leadFollowRatio)
      e1 == IF e.autoPlayMode /\ QLt(Q(3, 10), state.confidence)
            THEN [e EXCEPT !.autoPlayBeat =
                    QAdd(QMul(e.autoPlayBeat, e.leadFollowRatio),
                         QMul(state.currentBeat, blend))]
            ELSE e
      e2 == [e1 EXCEPT !.currentBeat =
               IF e1.autoPlayMode THEN e1.autoPlayBeat ELSE state.currentBeat]
      playbackIndex == QFloor(QDiv(e2.autoPlayBeat, QInt(e2.score.beats)))
      e3 == [e2 EXCEPT !.currentMeasure =
               IF e2.autoPlayMode /\ e2.score.loaded
               THEN At(e2.score.measureNumbers,
                       At(e2.score.playbackOrder, playbackIndex, 0), 0)
               ELSE state.currentMeasure]
      e4 == IF e3.score.loaded THEN updateRole(e3) ELSE e3
      followerTempo == state.estimatedTempo
      baseTempo == e4.score.tempo
      e5 == [e4 EXCEPT !.tempo =
               blendedTempo(baseTempo, followerTempo, e4.leadFollowRatio)]
  IN  emitState(scheduleAccompaniment(e5))

\* scoreFollower.processNote(msg, role), with the callback it invokes
followerProcessNote(e, msg) ==
  IF SFnoop(e.scoreFollower, msg) THEN e
  ELSE LET sf == SFprocessNote(e.scoreFollower, msg, e.currentRole)
       IN  onStateUpdate([e EXCEPT !.scoreFollower = sf], SFstate(sf))

\* the callback of the listening-delay timers: to playing, if still listening
listenCallback(e) ==
  IF e.engineState = "listening"
  THEN emitState(startAutoPlay([e EXCEPT !.engineState = "playing"]))
  ELSE e

\* the callback of the wait-duration timer set by handleWaitDirective
waitCallback(e) ==
  emitState(setTimer([e EXCEPT !.engineState = "listening",
                               !.scoreFollower = SFstart(@)],
                     "listen", NoteListenDelayMs))

\* handleWaitDirective
handleWaitDirective(e, wait) ==
  IF wait.type = "wait" /\ wait.duration # QZero
  THEN LET id == FreshId(e)
       IN  [setTimer(e, "wait", QFloor(QMul(wait.duration, QInt(1000))))
            EXCEPT !.playbackTimer = id]
  ELSE e

\* score.measures.find((m) => m.measureNumber === 1)?.wait
RECURSIVE FirstMeasureWait(_, _)
FirstMeasureWait(measures, i) ==
  IF i > Len(measures) THEN NoWait
  ELSE IF measures[i].measureNumber = 1 THEN measures[i].wait
  ELSE FirstMeasureWait(measures, i + 1)

\* FlatNotes that keeps the notes of every part
RECURSIVE FlatNotesAll(_, _, _)
FlatNotesAll(parts, i, keep) ==
  IF i > Len(parts) THEN <<>>
  ELSE parts[i].notes \o FlatNotesAll(parts, i + 1, keep)

\* parts.flatMap((p) => p.notes) over the parts kept
RECURSIVE FlatNotes(_, _, _)
FlatNotes(parts, i, keep) ==
  IF i > Len(parts) THEN <<>>
  ELSE (IF keep[i] THEN parts[i].notes ELSE <<>>) \o FlatNotes(parts, i + 1, keep)

\* parts.find((p) => p.isSolo): its 0-based index, -1 when there is none
RECURSIVE FindSolo(_, _)
FindSolo(parts, i) ==
  IF i > Len(parts) THEN -1
  ELSE IF parts[i].isSolo THEN i - 1
  ELSE FindSolo(parts, i + 1)

\* loadScore(score, options); soloPartIndex is -1 when the option is absent
loadScore(e, sc, soloPartIndex) ==
  LET soloIdx == IF soloPartIndex # -1
                 THEN (IF soloPartIndex < Len(sc.parts) THEN soloPartIndex ELSE -1)
                 ELSE FindSolo(sc.parts, 1)
      keep == [i \in DOMAIN sc.parts |->
                 IF soloPartIndex # -1 THEN i - 1 # soloPartIndex
                 ELSE ~sc.parts[i].isSolo]
      e1 == [e EXCEPT !.score = sc, !.mutedParts = {}]
      e2 == IF soloIdx # -1
            THEN [e1 EXCEPT !.scoreFollower =
                    SFloadScore(@, sc.parts[soloIdx + 1].notes, sc.tempo, sc.beats,
                                sc.playbackOrder, sc.measureNumbers)]
            ELSE e1
      e3 == [e2 EXCEPT !.accompNotes = SortByBeat(FlatNotes(sc.parts, 1, keep)),
                       !.tempo = sc.tempo]
      e4 == IF FirstMeasureWait(sc.measures, 1) # NoWait
            THEN [e3 EXCEPT !.engineState = "waiting"]
            ELSE e3
  IN  emitState(e4)

\* start
start(e) ==
  IF ~e.score.loaded THEN e
  ELSE LET wait == FirstMeasureWait(e.score.measures, 1)
       IN  emitState(
             IF wait # NoWait
             THEN handleWaitDirective([e EXCEPT !.engineState = "waiting"], wait)
             ELSE startAutoPlay([e EXCEPT !.engineState = "playing",
                                          !.scoreFollower = SFstart(@)]))

\* the interval's callback without its test of engineState
tickCallbackUnguarded(e) ==
  LET baseTempo == e.score.tempo
      effectiveTempo ==
        QClamp(QMul(baseTempo, Q(1, 2)), QMul(baseTempo, QInt(2)), e.tempo)
      beatsPerTick == QMul(QDiv(effectiveTempo, QInt(60000)), QInt(tickMs))
      e1 == [e EXCEPT !.autoPlayBeat = QAdd(@, beatsPerTick),
                      !.currentBeat = QAdd(e.autoPlayBeat, beatsPerTick)]
      playbackIndex == QFloor(QDiv(e1.autoPlayBeat, QInt(e.score.beats)))
  IN  IF e.score.loaded /\ playbackIndex >= Len(e.score.playbackOrder)
      THEN stop(e1)
      ELSE LET e2 == IF e.score.loaded
                     THEN updateRole(
                            [e1 EXCEPT !.currentMeasure =
                               At(e.score.measureNumbers,
                                  At(e.score.playbackOrder, playbackIndex, 0), 0)])
                     ELSE e1
           IN  emitState(scheduleAccompaniment(e2))

\* the interval's callback that advances and emits whatever engineState is
tickCallbackRegardless(e) ==
  LET baseTempo == e.score.tempo
      effectiveTempo ==
        QClamp(QMul(baseTempo, Q(1, 2)), QMul(baseTempo, QInt(2)), e.tempo)
      beatsPerTick == QMul(QDiv(effectiveTempo, QInt(60000)), QInt(tickMs))
      e1 == [e EXCEPT !.autoPlayBeat = QAdd(@, beatsPerTick),
                      !.currentBeat = QAdd(e.autoPlayBeat, beatsPerTick)]
      playbackIndex == QFloor(QDiv(e1.autoPlayBeat, QInt(e.score.beats)))
  IN  IF e.score.loaded /\ playbackIndex >= Len(e.score.playbackOrder)
      THEN stop(e1)
      ELSE LET e2 == IF e.score.loaded
                     THEN updateRole(
                            [e1 EXCEPT !.currentMeasure =
                               At(e.score.measureNumbers,
                                  At(e.score.playbackOrder, playbackIndex, 0), 0)])
                     ELSE e1
           IN  emitState(ScheduleLoop(e2, QAdd(e2.currentBeat, QInt(lookAhead))))

\* the callback of the interval set by startAutoPlay
tickCallback(e) ==
  IF e.engineState # "playing" /\ e.engineState # "listening" THEN e
  ELSE
    LET baseTempo == e.score.tempo
        minTempo == QMul(baseTempo, Q(1, 2))
        maxTempo == QMul(baseTempo, QInt(2))
        rawTempo == e.tempo
        effectiveTempo == QClamp(minTempo, maxTempo, rawTempo)
        beatsPerTick == QMul(QDiv(effectiveTempo, QInt(60000)), QInt(tickMs))
        e1 == [e EXCEPT !.autoPlayBeat = QAdd(@, beatsPerTick),
                        !.currentBeat = QAdd(e.autoPlayBeat, beatsPerTick)]
        beatsPerMeasure == e.score.beats
        playbackIndex == QFloor(QDiv(e1.autoPlayBeat, QInt(beatsPerMeasure)))
    IN  IF e.score.loaded /\ playbackIndex >= Len(e.score.playbackOrder)
        THEN stop(e1)
        ELSE LET e2 == IF e.score.loaded
                       THEN updateRole(
                              [e1 EXCEPT !.currentMeasure =
                                 At(e.score.measureNumbers,
                                    At(e.score.playbackOrder, playbackIndex, 0), 0)])
                       ELSE e1
             IN  emitState(scheduleAccompaniment(e2))

\* processMidiNote
processMidiNote(e, msg) ==
  LET e1 == IF e.engineState = "waiting"
            THEN emitState(setTimer([e EXCEPT !.engineState = "listening",
                                              !.scoreFollower = SFstart(@)],
                                    "listen", NoteListenDelayMs))
            ELSE e
  IN  IF e1.engineState = "playing" \/ e1.engineState = "listening"
      THEN followerProcessNote(e1, msg)
      ELSE e1

\* MotionCue
Cue(type, confidence) == [type |-> type, confidence |-> confidence]

\* handleMotionCue
handleMotionCue(e, cue) ==
  LET e1 == IF /\ e.engineState = "waiting"
               /\ cue.type \in {"breath", "preparation", "nod"}
               /\ QLt(Q(6, 10), cue.confidence)
            THEN emitState(setTimer([e EXCEPT !.engineState = "listening",
                                              !.scoreFollower = SFstart(@)],
                                    "listen", CueListenDelayMs))
            ELSE e
      baseTempo == e1.score.tempo
      minTempo == QMul(baseTempo, Q(7, 10))
      maxTempo == QMul(baseTempo, Q(13, 10))
      nudge == QMul(QSub(cue.confidence, Q(1, 2)), QInt(2))
  IN  IF e1.engineState = "playing" /\ cue.type = "breath"
      THEN [e1 EXCEPT !.tempo = QClamp(minTempo, maxTempo, QAdd(e1.tempo, nudge))]
      ELSE e1

\* insertion of annotation a into a list ascending by measureNumber, after
\* the entries of equal measureNumber (Array.prototype.sort is stable)
RECURSIVE InsertByMeasure(_, _)
InsertByMeasure(sorted, a) ==
  IF sorted = <<>> THEN <<a>>
  ELSE IF a.measureNumber < Head(sorted).measureNumber THEN <<a>> \o sorted
  ELSE <<Head(sorted)>> \o InsertByMeasure(Tail(sorted), a)

\* measures.sort((a, b) => a.measureNumber - b.measureNumber)
RECURSIVE SortByMeasure(_)
SortByMeasure(measures) ==
  IF measures = <<>> THEN <<>>
  ELSE InsertByMeasure(SortByMeasure(SubSeq(measures, 1, Len(measures) - 1)),
                       measures[Len(measures)])

\* measures.find((m) => m.measureNumber === n): its 1-based index, 0 when
\* there is none
RECURSIVE FindMeasure(_, _, _)
FindMeasure(measures, i, n) ==
  IF i > Len(measures) THEN 0
  ELSE IF measures[i].measureNumber = n THEN i
  ELSE FindMeasure(measures, i + 1, n)

\* updateMeasureAnnotation that replaces the entry found by the annotation
updateMeasureAnnotationWhole(e, annotation) ==
  IF ~e.score.loaded THEN e
  ELSE LET existing == FindMeasure(e.score.measures, 1, annotation.measureNumber)
       IN  IF existing # 0
           THEN [e EXCEPT !.score.measures[existing] = annotation]
           ELSE [e EXCEPT !.score.measures = SortByMeasure(Append(@, annotation))]

\* updateMeasureAnnotation
updateMeasureAnnotation(e, annotation) ==
  IF ~e.score.loaded THEN e
  ELSE LET existing == FindMeasure(e.score.measures, 1, annotation.measureNumber)
       IN  IF existing # 0
           THEN [e EXCEPT
                  !.score.measures[existing].role =
                     IF annotation.role # NoRole THEN annotation.role ELSE @,
                  !.score.measures[existing].wait =
                     IF annotation.wait # NoWait THEN annotation.wait ELSE @]
           ELSE [e EXCEPT !.score.measures = SortByMeasure(Append(@, annotation))]

\* mutePart
mutePart(e, partIndex) == [e EXCEPT !.mutedParts = @ \cup {partIndex}]

\* unmutePart
unmutePart(e, partIndex) == [e EXCEPT !.mutedParts = @ \ {partIndex}]

(***************************************************************************)
(* PlaybackEngine (fixed-tempo engine): methods, as operators on the same  *)
(* record; the fields the class does not have keep their initial values    *)
(***************************************************************************)
\* PlaybackEngine.scheduleAccompaniment: const lookAhead = 4
PBlookAhead == 4

\* the PlaybackEngine after construction
NewPlaybackEngine == [NewEngine EXCEPT !.currentMeasure = 0]

\* PlaybackEngine.getState
PBgetState(e) ==
  [engineState |-> e.engineState, currentMeasure |-> e.currentMeasure,
   currentBeat |-> e.currentBeat, tempo |-> e.tempo]

\* PlaybackEngine.emitState: lastEmitTime = 0, then onStateChange(getState());
\* performance.now() counts from the time origin of the page, which lies at
\* least emitIntervalMs before any call
PBemitState(e) ==
  [e EXCEPT !.sinceEmit = emitIntervalMs,
            !.stateOutput = Append(@, PBgetState(e))]

\* PlaybackEngine.emitStateThrottled
PBemitStateThrottled(e) ==
  IF e.sinceEmit < emitIntervalMs THEN e
  ELSE [e EXCEPT !.sinceEmit = 0, !.stateOutput = Append(@, PBgetState(e))]

\* PlaybackEngine.mutePart
\* isMuted of either engine
isMuted(e, partIndex) == partIndex \in e.mutedParts

\* getMutedParts handing out the engine's own Set object
getMutedPartsShared(e) ==
  [e EXCEPT !.returned = [set |-> e.mutedParts, shared |-> TRUE, given |-> TRUE]]

\* getMutedParts of either engine: return new Set(this.mutedParts)
getMutedParts(e) ==
  [e EXCEPT !.returned = [set |-> e.mutedParts, shared |-> FALSE, given |-> TRUE]]

\* the caller adds partIndex to the Set it was given, or deletes it; a Set
\* that is the engine's own changes the engine's mutedParts as well
modifyReturned(e, partIndex, add) ==
  LET change(set) == IF add THEN set \cup {partIndex} ELSE set \ {partIndex}
  IN  IF e.returned.shared
      THEN [e EXCEPT !.returned.set = change(@), !.mutedParts = change(@)]
      ELSE [e EXCEPT !.returned.set = change(@)]

PBmutePart(e, partIndex) == [e EXCEPT !.mutedParts = @ \cup {partIndex}]

\* PlaybackEngine.unmutePart
PBunmutePart(e, partIndex) == [e EXCEPT !.mutedParts = @ \ {partIndex}]

\* PlaybackEngine.stopAutoPlay
PBstopAutoPlay(e) ==
  IF e.autoPlayTimer # 0
  THEN [clearTimer(e, e.autoPlayTimer) EXCEPT !.autoPlayTimer = 0]
  ELSE e

\* PlaybackEngine.startAutoPlay: the interval's callback is PBtickCallback
PBstartAutoPlay(e) ==
  LET e1 == PBstopAutoPlay(e)
      id == FreshId(e1)
  IN  [setTimer(e1, "tick", tickMs) EXCEPT !.autoPlayTimer = id]

\* PlaybackEngine.loadScore(score, options); excludePartIndex is -1 when the
\* option is absent
PBloadScore(e, sc, excludePartIndex, excludeSolo) ==
  LET keep == [i \in DOMAIN sc.parts |->
                 IF excludePartIndex # -1 THEN i - 1 # excludePartIndex
                 ELSE IF excludeSolo THEN ~sc.parts[i].isSolo
                 ELSE TRUE]
  IN  PBemitState(
        [e EXCEPT !.score = sc,
                  !.mutedParts = {},
                  !.accompNotes = SortByBeat(FlatNotes(sc.parts, 1, keep)),
                  !.tempo = sc.tempo,
                  !.currentMeasure = At(sc.measureNumbers, 0, 0),
                  !.engineState = "idle"])

\* PlaybackEngine.setTempo
\* setTempo clamping to a tenth and to ten times the base tempo
PBsetTempoWide(e, bpm) ==
  LET baseTempo == e.score.tempo
      minTempo == QMul(baseTempo, Q(1, 10))
      maxTempo == QMul(baseTempo, QInt(10))
  IN  PBemitState([e EXCEPT !.tempo = QClamp(minTempo, maxTempo, bpm)])

PBsetTempo(e, bpm) ==
  LET baseTempo == e.score.tempo
      minTempo == QMul(baseTempo, Q(1, 4))
      maxTempo == QMul(baseTempo, QInt(4))
  IN  PBemitState([e EXCEPT !.tempo = QClamp(minTempo, maxTempo, bpm)])

\* PlaybackEngine.start
PBstart(e) ==
  IF ~e.score.loaded THEN e
  ELSE PBemitState(PBstartAutoPlay([e EXCEPT !.engineState = "playing"]))

\* PlaybackEngine.stop
\* stop() of the fixed-tempo engine that rewinds and keeps playing
PBstopLooping(e) ==
  PBemitState([e EXCEPT !.accompIndex = 0,
                        !.currentBeat = QZero,
                        !.currentMeasure = At(e.score.measureNumbers, 0, 0)])

\* stop() of the fixed-tempo engine without stopAutoPlay()
PBstopKeepingTimer(e) ==
  PBemitState([e EXCEPT !.engineState = "idle",
                        !.accompIndex = 0,
                        !.currentBeat = QZero,
                        !.currentMeasure = At(e.score.measureNumbers, 0, 0)])

PBstop(e) ==
  LET e1 == PBstopAutoPlay([e EXCEPT !.engineState = "idle"])
  IN  PBemitState([e1 EXCEPT !.accompIndex = 0,
                             !.currentBeat = QZero,
                             !.currentMeasure = At(e.score.measureNumbers, 0, 0)])

\* PlaybackEngine.scheduleAccompaniment
PBscheduleAccompaniment(e) ==
  IF e.engineState # "playing" THEN e
  ELSE ScheduleLoop(e, QAdd(e.currentBeat, QInt(PBlookAhead)))

\* the callback of the interval set by PlaybackEngine.startAutoPlay
PBtickCallback(e) ==
  IF e.engineState # "playing" THEN e
  ELSE
    LET beatsPerTick == QMul(QDiv(e.tempo, QInt(60000)), QInt(tickMs))
        e1 == [e EXCEPT !.currentBeat = QAdd(@, beatsPerTick)]
        beatsPerMeasure == e.score.beats
        playbackIndex == QFloor(QDiv(e1.currentBeat, QInt(beatsPerMeasure)))
    IN  IF e.score.loaded /\ playbackIndex >= Len(e.score.playbackOrder)
        THEN PBstop(e1)
        ELSE LET e2 == IF e.score.loaded
                       THEN [e1 EXCEPT !.currentMeasure =
                               At(e.score.measureNumbers,
                                  At(e.score.playbackOrder, playbackIndex, -1), 0)]
                       ELSE e1
             IN  PBemitStateThrottled(PBscheduleAccompaniment(e2))

(***************************************************************************)
(* Inputs                                                                  *)
(***************************************************************************)
\* the messages given to processMidiNote
NoteInputs == {Msg("noteon", 60, 50), Msg("noteoff", 60, 50)}
CueInputs ==
  {Cue(t, c) : t \in MotionCueTypes, c \in {Q(6, 10), Q(7, 10)}}
\* no cue
NoCue == Cue("none", QZero)
\* options.soloPartIndex of loadScore; -1 stands for an absent option
SoloOptions == {-1}
\* the options of PlaybackEngine.loadScore: <<excludePartIndex, excludeSolo>>
PBOptions == {<<-1, FALSE>>, <<-1, TRUE>>}
\* the part indices given to mutePart and unmutePart
PartInputs == {0, 1}
\* the tempos given to PlaybackEngine.setTempo
TempoInputs == {QInt(100), QInt(2400), QInt(6000)}

(***************************************************************************)
(* Actions                                                                 *)
(***************************************************************************)
\* the duration, in ms, of the wait directive of measure 1; 0 when it has none
FirstWaitMs(sc) ==
  LET wait == FirstMeasureWait(sc.measures, 1)
  IN  IF wait.type = "wait" THEN QFloor(QMul(wait.duration, QInt(1000))) ELSE 0

\* the engine record e becomes the state; cause names what a new entry into
\* listening is due to
CommitWith(e, op, cause, partIndex) ==
  /\ score' = e.score
  /\ scoreFollower' = e.scoreFollower
  /\ accompNotes' = e.accompNotes
  /\ engineState' = e.engineState
  /\ currentRole' = e.currentRole
  /\ currentMeasure' = e.currentMeasure
  /\ currentBeat' = e.currentBeat
  /\ tempo' = e.tempo
  /\ leadFollowRatio' = e.leadFollowRatio
  /\ playbackTimer' = e.playbackTimer
  /\ accompIndex' = e.accompIndex
  /\ autoPlayTimer' = e.autoPlayTimer
  /\ autoPlayBeat' = e.autoPlayBeat
  /\ autoPlayMode' = e.autoPlayMode
  /\ mutedParts' = e.mutedParts
  /\ timers' = e.timers
  /\ noteOutput' = e.noteOutput
  /\ lastOp' = op
  /\ prevState' = engineState
  /\ listenBy' = IF e.engineState # "listening" THEN "none"
                 ELSE IF engineState # "listening" THEN cause
                 ELSE listenBy
  /\ listenFor' = IF e.engineState = "listening" /\ engineState = "listening"
                  THEN listenFor ELSE 0
  /\ afterStop' = IF op \in {"start", "loadScore"} THEN FALSE
                  ELSE IF op = "stop" THEN TRUE
                  ELSE IF op = "tick" /\ e.engineState = "idle"
                          /\ engineState # "idle" THEN TRUE
                  ELSE afterStop
  /\ skipped' = IF op = "loadScore" \/ e.accompIndex < accompIndex THEN {}
                ELSE skipped \cup
                       {i \in (accompIndex + 1)..e.accompIndex :
                          accompNotes[i].partIndex \in mutedParts}
  /\ stateOutput' = e.stateOutput
  /\ sinceEmit' = e.sinceEmit
  /\ tickEmitAgo' = IF e.stateOutput = <<>> THEN tickEmitAgo
                    ELSE IF op = "tick" /\ e.engineState # "idle" THEN 0
                    ELSE emitIntervalMs
  /\ played' = IF e.accompIndex < accompIndex THEN <<>>
               ELSE played \o [i \in DOMAIN e.noteOutput |-> e.noteOutput[i].note]
  /\ returned' = e.returned
  /\ lastPart' = partIndex
  /\ excluded' = IF op = "loadScore" THEN partIndex ELSE excluded
  /\ UNCHANGED engineKind

\* the step of an operation that is given no part index
Commit(e, op, cause) == CommitWith(e, op, cause, -1)

\* loadScore of either engine with a score of scores, at most max times
LoadScoreWith(scores, max, soloOptions, pbOptions) ==
  /\ nLoads < max
  /\ \/ /\ engineKind = "adaptive"
        /\ \E sc \in scores, solo \in soloOptions :
             CommitWith(loadScore(Self, sc, solo), "loadScore", "none", solo)
     \/ /\ engineKind = "fixed"
        /\ \E sc \in scores, opt \in pbOptions :
             CommitWith(PBloadScore(Self, sc, opt[1], opt[2]), "loadScore", "none",
                        opt[1])
  /\ nLoads' = nLoads + 1
  /\ sinceStart' = -1
  /\ lastCue' = NoCue
  /\ UNCHANGED <<nStarts, nStops, nNotes, nCues, nTempos, nMutes>>

\* loadScore without soloPartIndex; excludeSolo given or not
LoadScoreOf(scores, max) == LoadScoreWith(scores, max, SoloOptions, PBOptions)

LoadScore == LoadScoreOf(Scores, MaxLoads)

\* start of either engine, at most max times
StartUpTo(max) ==
  /\ nStarts < max
  /\ Commit(IF engineKind = "adaptive" THEN start(Self) ELSE PBstart(Self),
            "start", "none")
  /\ nStarts' = nStarts + 1
  /\ sinceStart' = IF engineKind = "adaptive" /\ score.loaded /\ FirstWaitMs(score) > 0
                   THEN 0 ELSE -1
  /\ lastCue' = NoCue
  /\ UNCHANGED <<nLoads, nStops, nNotes, nCues, nTempos, nMutes>>

Start == StartUpTo(MaxStarts)

\* stop of either engine, at most max times
StopUpTo(max) ==
  /\ nStops < max
  /\ Commit(IF engineKind = "adaptive" THEN stop(Self) ELSE PBstop(Self),
            "stop", "none")
  /\ nStops' = nStops + 1
  /\ sinceStart' = -1
  /\ lastCue' = NoCue
  /\ UNCHANGED <<nLoads, nStarts, nNotes, nCues, nTempos, nMutes>>

Stop == StopUpTo(MaxStops)

\* processMidiNote with a message of inputs, at most max times
ProcessMidiNoteOf(inputs, max) ==
  /\ engineKind = "adaptive"
  /\ nNotes < max
  /\ \E msg \in inputs :
       Commit(processMidiNote(Self, msg), msg.type, msg.type)
  /\ nNotes' = nNotes + 1
  /\ sinceStart' = -1
  /\ lastCue' = NoCue
  /\ UNCHANGED <<nLoads, nStarts, nStops, nCues, nTempos, nMutes>>

ProcessMidiNote == ProcessMidiNoteOf(NoteInputs, MaxNotes)

\* a motion_cue event of inputs on the event bus, which the engine
\* subscribes to, at most max times
MotionCueOf(inputs, max) ==
  /\ engineKind = "adaptive"
  /\ nCues < max
  /\ \E cue \in inputs :
       /\ Commit(handleMotionCue(Self, cue), "cue", "cue")
       /\ lastCue' = cue
  /\ nCues' = nCues + 1
  /\ sinceStart' = -1
  /\ UNCHANGED <<nLoads, nStarts, nStops, nNotes, nTempos, nMutes>>

MotionCue == MotionCueOf(CueInputs, MaxCues)

\* PlaybackEngine.setTempo with a tempo of inputs, at most max times
SetTempoOf(inputs, max) ==
  /\ engineKind = "fixed"
  /\ nTempos < max
  /\ \E bpm \in inputs : Commit(PBsetTempo(Self, bpm), "setTempo", "none")
  /\ nTempos' = nTempos + 1
  /\ lastCue' = NoCue
  /\ UNCHANGED <<sinceStart, nLoads, nStarts, nStops, nNotes, nCues, nMutes>>

SetTempo == SetTempoOf(TempoInputs, MaxTempos)

\* mutePart of either engine with an index of parts, at most max mute and
\* unmute calls in all
MutePartOf(parts, max) ==
  /\ nMutes < max
  /\ \E p \in parts :
       CommitWith(IF engineKind = "adaptive" THEN mutePart(Self, p)
                  ELSE PBmutePart(Self, p), "mutePart", "none", p)
  /\ nMutes' = nMutes + 1
  /\ lastCue' = NoCue
  /\ UNCHANGED <<sinceStart, nLoads, nStarts, nStops, nNotes, nCues, nTempos>>

MutePart == MutePartOf(PartInputs, MaxMutes)

\* unmutePart of either engine
UnmutePartOf(parts, max) ==
  /\ nMutes < max
  /\ \E p \in parts :
       CommitWith(IF engineKind = "adaptive" THEN unmutePart(Self, p)
                  ELSE PBunmutePart(Self, p), "unmutePart", "none", p)
  /\ nMutes' = nMutes + 1
  /\ lastCue' = NoCue
  /\ UNCHANGED <<sinceStart, nLoads, nStarts, nStops, nNotes, nCues, nTempos>>

UnmutePart == UnmutePartOf(PartInputs, MaxMutes)

\* getMutedParts of either engine
GetMutedParts ==
  /\ Commit(getMutedParts(Self), "getMutedParts", "none")
  /\ lastCue' = NoCue
  /\ UNCHANGED <<sinceStart, nLoads, nStarts, nStops, nNotes, nCues, nTempos,
                 nMutes>>

\* the caller changes the Set getMutedParts returned
ModifyReturnedOf(parts) ==
  /\ returned.given
  /\ \E p \in parts, add \in BOOLEAN :
       /\ (p \in returned.set) # add
       /\ CommitWith(modifyReturned(Self, p, add), "modifyReturned", "none", p)
  /\ lastCue' = NoCue
  /\ UNCHANGED <<sinceStart, nLoads, nStarts, nStops, nNotes, nCues, nTempos,
                 nMutes>>

\* the least time left on a pending timer
RECURSIVE MinRem(_, _)
MinRem(ts, i) ==
  IF i = Len(ts) THEN ts[i].rem ELSE Min2(ts[i].rem, MinRem(ts, i + 1))

\* time passes until the next timer is due
Advance ==
  /\ timers # <<>>
  /\ Due(timers) = {}
  /\ timers' = [i \in DOMAIN timers |->
                  [timers[i] EXCEPT !.rem = @ - MinRem(timers, 1)]]
  /\ listenFor' = IF engineState = "listening"
                  THEN listenFor + MinRem(timers, 1) ELSE listenFor
  /\ sinceStart' = IF sinceStart < 0 THEN -1
                   ELSE IF sinceStart >= FirstWaitMs(score) + NoteListenDelayMs THEN -1
                   ELSE sinceStart + MinRem(timers, 1)
  /\ lastOp' = "advance"
  /\ prevState' = engineState
  /\ noteOutput' = <<>>
  /\ stateOutput' = <<>>
  /\ lastPart' = -1
  /\ sinceEmit' = Min2(emitIntervalMs, sinceEmit + MinRem(timers, 1))
  /\ tickEmitAgo' = Min2(emitIntervalMs, tickEmitAgo + MinRem(timers, 1))
  /\ lastCue' = NoCue
  /\ UNCHANGED <<engineKind, score, scoreFollower, accompNotes, engineState, currentRole,
                 currentMeasure, currentBeat, tempo, leadFollowRatio,
                 playbackTimer, accompIndex, autoPlayTimer, autoPlayBeat,
                 autoPlayMode, mutedParts, listenBy, afterStop, nLoads, nStarts,
                 nStops, nNotes, nCues, nTempos, nMutes, skipped, played,
                 returned, excluded>>

\* the queue without its i-th timer
Without(ts, i) == SubSeq(ts, 1, i - 1) \o SubSeq(ts, i + 1, Len(ts))

\* the wait-duration timer expires
WaitTimerFire ==
  /\ Due(timers) # {}
  /\ timers[NextDue(timers)].kind = "wait"
  /\ Commit(waitCallback([Self EXCEPT !.timers = Without(@, NextDue(timers))]),
            "waitTimer", "timer")
  /\ lastCue' = NoCue
  /\ UNCHANGED <<sinceStart, nLoads, nStarts, nStops, nNotes, nCues, nTempos, nMutes>>

\* a listening-delay timer expires
ListenTimerFire ==
  /\ Due(timers) # {}
  /\ timers[NextDue(timers)].kind = "listen"
  /\ Commit(listenCallback([Self EXCEPT !.timers = Without(@, NextDue(timers))]),
            "listenTimer", "none")
  /\ lastCue' = NoCue
  /\ UNCHANGED <<sinceStart, nLoads, nStarts, nStops, nNotes, nCues, nTempos, nMutes>>

\* the interval rearmed after its callback, unless the callback cleared it
Rearm(ts, id) ==
  IF \E i \in DOMAIN ts : ts[i].id = id
  THEN Append(DropId(ts, id), Timer(id, "tick", tickMs))
  ELSE ts

\* the tick interval of either engine fires
TickFire ==
  /\ Due(timers) # {}
  /\ timers[NextDue(timers)].kind = "tick"
  /\ LET id == timers[NextDue(timers)].id
         e == IF engineKind = "adaptive" THEN tickCallback(Self) ELSE PBtickCallback(Self)
     IN  Commit([e EXCEPT !.timers = Rearm(@, id)], "tick", "none")
  /\ lastCue' = NoCue
  /\ UNCHANGED <<sinceStart, nLoads, nStarts, nStops, nNotes, nCues, nTempos, nMutes>>

\* the state after new AccompanimentEngine() or new PlaybackEngine()
InitEngine(e) ==
  /\ score = e.score
  /\ scoreFollower = e.scoreFollower
  /\ accompNotes = e.accompNotes
  /\ engineState = e.engineState
  /\ currentRole = e.currentRole
  /\ currentMeasure = e.currentMeasure
  /\ currentBeat = e.currentBeat
  /\ tempo = e.tempo
  /\ leadFollowRatio = e.leadFollowRatio
  /\ playbackTimer = e.playbackTimer
  /\ accompIndex = e.accompIndex
  /\ autoPlayTimer = e.autoPlayTimer
  /\ autoPlayBeat = e.autoPlayBeat
  /\ autoPlayMode = e.autoPlayMode
  /\ mutedParts = e.mutedParts
  /\ timers = e.timers
  /\ noteOutput = <<>>
  /\ lastOp = "new"
  /\ lastCue = NoCue
  /\ prevState = "idle"
  /\ listenBy = "none"
  /\ listenFor = 0
  /\ sinceStart = -1
  /\ afterStop = FALSE
  /\ nLoads = 0 /\ nStarts = 0 /\ nStops = 0 /\ nNotes = 0 /\ nCues = 0
  /\ nTempos = 0 /\ nMutes = 0
  /\ skipped = {}
  /\ stateOutput = <<>>
  /\ sinceEmit = emitIntervalMs
  /\ tickEmitAgo = emitIntervalMs
  /\ played = <<>>
  /\ returned = NoSet
  /\ lastPart = -1
  /\ excluded = -1

Init ==
  \/ engineKind = "adaptive" /\ InitEngine(NewEngine)
  \/ engineKind = "fixed" /\ InitEngine(NewPlaybackEngine)

Next ==
  \/ LoadScore
  \/ Start
  \/ Stop
  \/ ProcessMidiNote
  \/ MotionCue
  \/ SetTempo
  \/ Advance
  \/ WaitTimerFire
  \/ ListenTimerFire
  \/ TickFire

Spec == Init /\ [][Next]_vars

(***************************************************************************)
(* The adaptive engine under runs of several notes: the tracker's tempo    *)
(* estimates move away from the base tempo and reach the engine's tempo    *)
(***************************************************************************)
\* processMidiNote calls in such a run
MaxTrackNotes == 4

\* note-ons that match the score at the expected time and that follow the
\* previous note after 1 ms
TrackInputs == {Msg("noteon", 62, 50), Msg("noteon", 64, 1)}

\* breath cues that nudge the tempo up and down
TrackCues == {Cue("breath", Q(7, 10)), Cue("breath", Q(1, 10))}

\* measure 1 carries the role parseRoleFromRehearsal builds from
\* "Follow:moderate": the mode and strength of the engine's initial role with
\* another factor
ScoreRehearsed ==
  [BaseScore EXCEPT !.measures =
     <<Annotation(1, Role("follow", "moderate", Q(1, 2)), NoWait)>>]

\* scores with an open wait under a strong follow role, without wait under
\* the default role and then a lead role, and with a rehearsal-mark role
TrackScores == {ScoreOpen, ScorePlain, ScoreRehearsed}

\* start() calls in such a run
MaxTrackStarts == 1

TrackInit == engineKind = "adaptive" /\ InitEngine(NewEngine)

TrackLoadScore == LoadScoreOf(TrackScores, MaxLoads)
TrackStart == StartUpTo(MaxTrackStarts)
TrackNote == ProcessMidiNoteOf(TrackInputs, MaxTrackNotes)
TrackCue == MotionCueOf(TrackCues, MaxCues)

TrackNext ==
  \/ TrackLoadScore
  \/ TrackStart
  \/ TrackNote
  \/ TrackCue
  \/ Advance
  \/ ListenTimerFire
  \/ TickFire

SpecTrack == TrackInit /\ [][TrackNext]_vars

(***************************************************************************)
(* Either engine under scheduling: scores longer than the look-ahead, so   *)
(* that notes are emitted tick after tick, with parts muted and unmuted    *)
(* and scores loaded again during a run                                    *)
(***************************************************************************)
\* loadScore, start and processMidiNote calls in such a run
MaxSchedLoads == 2
MaxSchedStarts == 2
MaxSchedNotes == 1

\* seven one-beat measures at one beat per tick: a solo part and two
\* accompaniment parts with notes beyond the look-ahead of both engines
ScoreLong ==
  [loaded |-> TRUE,
   tempo |-> QInt(1200),
   beats |-> 1,
   parts |-> <<Part(TRUE, <<Note(60, QInt(0), 0), Note(62, QInt(2), 0)>>),
               Part(FALSE, <<Note(48, QInt(0), 1), Note(52, QInt(3), 1),
                             Note(55, QInt(6), 1)>>),
               Part(FALSE, <<Note(36, QInt(1), 2), Note(40, QInt(5), 2)>>)>>,
   measures |-> <<>>,
   playbackOrder |-> <<0, 1, 2, 3, 4, 5, 6>>,
   measureNumbers |-> <<1, 2, 3, 4, 5, 6, 7>>]

\* two one-beat measures numbered from 5 with one accompaniment note
ScoreShort ==
  [loaded |-> TRUE,
   tempo |-> QInt(1200),
   beats |-> 1,
   parts |-> <<Part(TRUE, <<Note(60, QInt(0), 0)>>),
               Part(FALSE, <<Note(48, QInt(0), 1)>>)>>,
   measures |-> <<>>,
   playbackOrder |-> <<0, 1>>,
   measureNumbers |-> <<5, 6>>]

SchedScores == {ScoreLong, ScoreShort}

\* a note-on of the solo part
SchedInputs == {Msg("noteon", 60, 50)}

SchedLoadScore == LoadScoreOf(SchedScores, MaxSchedLoads)
SchedStart == StartUpTo(MaxSchedStarts)
SchedNote == ProcessMidiNoteOf(SchedInputs, MaxSchedNotes)

SchedNext ==
  \/ SchedLoadScore
  \/ SchedStart
  \/ Stop
  \/ SchedNote
  \/ MutePart
  \/ UnmutePart
  \/ Advance
  \/ TickFire

SpecSched == Init /\ [][SchedNext]_vars

(***************************************************************************)
(* The fixed-tempo engine playing a score to its end: the interval fires   *)
(* every tickMs for as long as it is armed                                 *)
(***************************************************************************)
\* setTempo calls in such a run
MaxPlayTempos == 2

\* the two measures played twice
ScoreRepeat == [BaseScore EXCEPT !.playbackOrder = <<0, 1, 0, 1>>]

PlayScores == {BaseScore, ScoreRepeat}

\* arguments of setTempo: zero, negative, within the range and far above it
PlayTempos == {QInt(0), QInt(-100), QInt(600), QInt(100000)}

PlayInit == engineKind = "fixed" /\ InitEngine(NewPlaybackEngine)

PlayLoadScore == LoadScoreOf(PlayScores, MaxLoads)
PlaySetTempo == SetTempoOf(PlayTempos, MaxPlayTempos)

PlayNext ==
  \/ PlayLoadScore
  \/ Start
  \/ Stop
  \/ PlaySetTempo
  \/ Advance
  \/ TickFire

\* the step TickFire takes, told by its guard and by lastOp: among the steps
\* of PlayNext from a state with a due tick, TickFire's are those that set
\* lastOp to "tick", and lastOp is never "tick" while a tick is due
TickStep ==
  /\ Due(timers) # {}
  /\ timers[NextDue(timers)].kind = "tick"
  /\ lastOp' = "tick"

\* setInterval keeps calling the tick callback for as long as the interval
\* is armed: time passes, and a due tick fires
SpecPlayback ==
  PlayInit /\ [][PlayNext]_vars /\ WF_vars(Advance) /\ WF_lastOp(TickStep)

(***************************************************************************)
(* The position tracker on its own: a loaded ScoreFollower driven by       *)
(* sequences of start(), stop() and processNote() calls                    *)
(***************************************************************************)
\* processNote calls in a run of the tracker
MaxFollowerNotes == 3

\* the messages given to ScoreFollower.processNote: matching, near and
\* missing pitches at several inter-onset times
FollowerInputs ==
  {Msg("noteon", p, d) : p \in {60, 61, 90}, d \in {-50, 0, 1, 50, 400, 60000}}
    \cup {Msg("noteoff", 60, 50)}

\* a solo part longer than the search of advanceStates, with a note midway
\* between two others one beat after the first
LongSoloNotes ==
  <<Note(60, QInt(0), 0), Note(62, Q(1, 2), 0), Note(64, Q(3, 2), 0),
    Note(65, Q(5, 2), 0), Note(67, Q(7, 2), 0), Note(69, Q(9, 2), 0),
    Note(71, Q(11, 2), 0), Note(72, Q(13, 2), 0)>>

\* the solo parts given to ScoreFollower.loadScore
FollowerScores == {SoloNotes, LongSoloNotes, <<>>}

\* the engine's variables keep the values of a new engine
FollowerFrame ==
  UNCHANGED <<score, accompNotes, engineState, currentMeasure, currentBeat,
              tempo, leadFollowRatio, playbackTimer, accompIndex,
              autoPlayTimer, autoPlayBeat, autoPlayMode, mutedParts, timers,
              noteOutput, listenBy, listenFor, sinceStart, engineKind,
              lastCue, prevState, afterStop, skipped, nLoads, nCues, nTempos,
              nMutes, stateOutput, sinceEmit, tickEmitAgo, played, returned,
              lastPart, excluded>>

\* new ScoreFollower(), then loadScore(notes, 1200, 1, [0, 1], [1, 2]); the
\* role passed to processNote is drawn here
FollowerInit ==
  /\ \E notes \in FollowerScores :
       scoreFollower =
         SFloadScore(NewScoreFollower, notes, QInt(1200), 1, <<0, 1>>, <<1, 2>>)
  /\ currentRole \in {Role("follow", "moderate", Q(3, 10)),
                      Role("lead", "strong", Q(9, 10))}
  /\ score = NoScore
  /\ accompNotes = <<>>
  /\ engineState = "idle"
  /\ currentMeasure = 1
  /\ currentBeat = QZero
  /\ tempo = QInt(DefaultTempo)
  /\ leadFollowRatio = NewEngine.leadFollowRatio
  /\ playbackTimer = 0
  /\ accompIndex = 0
  /\ autoPlayTimer = 0
  /\ autoPlayBeat = QZero
  /\ autoPlayMode = NewEngine.autoPlayMode
  /\ mutedParts = {}
  /\ timers = <<>>
  /\ noteOutput = <<>>
  /\ lastOp = "new"
  /\ lastCue = NoCue
  /\ prevState = "idle"
  /\ listenBy = "none"
  /\ listenFor = 0
  /\ sinceStart = -1
  /\ afterStop = FALSE
  /\ engineKind = "adaptive"
  /\ nLoads = 0 /\ nStarts = 0 /\ nStops = 0 /\ nNotes = 0 /\ nCues = 0
  /\ nTempos = 0 /\ nMutes = 0
  /\ skipped = {}
  /\ stateOutput = <<>>
  /\ sinceEmit = emitIntervalMs
  /\ tickEmitAgo = emitIntervalMs
  /\ played = <<>>
  /\ returned = NoSet
  /\ lastPart = -1
  /\ excluded = -1

\* ScoreFollower.start
FollowerStart ==
  /\ nStarts < MaxStarts
  /\ scoreFollower' = SFstart(scoreFollower)
  /\ lastOp' = "start"
  /\ nStarts' = nStarts + 1
  /\ UNCHANGED <<currentRole, nStops, nNotes>>
  /\ FollowerFrame

\* ScoreFollower.stop
FollowerStop ==
  /\ nStops < MaxStops
  /\ scoreFollower' = SFstop(scoreFollower)
  /\ lastOp' = "stop"
  /\ nStops' = nStops + 1
  /\ UNCHANGED <<currentRole, nStarts, nNotes>>
  /\ FollowerFrame

\* ScoreFollower.processNote
FollowerProcessNote ==
  /\ nNotes < MaxFollowerNotes
  /\ \E msg \in FollowerInputs :
       /\ scoreFollower' = SFprocessNote(scoreFollower, msg, currentRole)
       /\ lastOp' = IF SFnoop(scoreFollower, msg) THEN "noop" ELSE "processNote"
  /\ nNotes' = nNotes + 1
  /\ UNCHANGED <<currentRole, nStarts, nStops>>
  /\ FollowerFrame

FollowerNext ==
  \/ FollowerStart
  \/ FollowerStop
  \/ FollowerProcessNote

SpecFollower == FollowerInit /\ [][FollowerNext]_vars

(***************************************************************************)
(* Properties                                                              *)
(***************************************************************************)
\* the wait directive of measure 1 has a duration
TimedWait(sc) == sc.loaded /\ FirstWaitMs(sc) > 0

\* measure 1 has a wait directive without a duration: a wait with none, or a
\* listen
OpenWait(sc) ==
  /\ sc.loaded
  /\ FirstMeasureWait(sc.measures, 1) # NoWait
  /\ FirstWaitMs(sc) = 0

\* the cues that handleMotionCue lets end a wait
Qualifying(cue) ==
  /\ cue.type \in {"breath", "preparation", "nod"}
  /\ QLt(Q(6, 10), cue.confidence)

\* the delay of the listening-to-playing timer set by the entry into listening
ListenDelay(by) == IF by = "cue" THEN CueListenDelayMs ELSE NoteListenDelayMs

\* the annotation of measure n carries a wait directive
HasWait(sc, n) ==
  \E i \in DOMAIN sc.measures :
    sc.measures[i].measureNumber = n /\ sc.measures[i].wait # NoWait

\* the sum of the hypotheses' probabilities
TotalProbability(sf) == SumProb(sf.states, Len(sf.states))

\* the follower with every probability set to zero
ZeroProbabilities(sf) ==
  [sf EXCEPT !.states =
     [t \in DOMAIN sf.states |-> [sf.states[t] EXCEPT !.probability = QZero]]]

\* C1: with a wait of duration d on measure 1, the loaded engine is waiting,
\* and from start() on, while no note, cue or stop() arrives, it is waiting
\* until d has elapsed, listening from d to d plus the fixed delay, and
\* playing from then on, with no other state in between.
C1_TimedWaitSequence ==
  /\ (lastOp = "loadScore" /\ engineKind = "adaptive" /\ TimedWait(score))
       => engineState = "waiting"
  /\ sinceStart >= 0 =>
       /\ engineState # "idle"
       /\ engineState = "waiting" => sinceStart <= FirstWaitMs(score)
       /\ engineState = "listening" =>
            /\ sinceStart >= FirstWaitMs(score)
            /\ sinceStart <= FirstWaitMs(score) + NoteListenDelayMs
       /\ engineState = "playing" =>
            sinceStart >= FirstWaitMs(score) + NoteListenDelayMs

\* C2: a noteon in waiting sets listening within the call, and a stay in
\* listening begun by a noteon ends, stop() aside, only in playing and only
\* when the fixed listening delay has elapsed.
C2_NoteOnListeningThenPlaying ==
  [][/\ (engineState = "waiting" /\ lastOp' = "noteon")
          => engineState' = "listening"
     /\ (/\ engineState = "listening"
         /\ listenBy = "noteon"
         /\ engineState' # "listening"
         /\ lastOp' \notin {"stop", "start", "loadScore"})
          => (engineState' = "playing" /\ listenFor = NoteListenDelayMs)
     /\ (engineState' = "listening" /\ listenBy' = "noteon")
          => listenFor' <= NoteListenDelayMs]_vars

\* C3: stop() in any state of either engine leaves the engine idle at beat 0,
\* at the measure of the first slot, with the accompaniment cursor at 0 and,
\* in the adaptive engine, the tracker inactive and reset.
C3_StopResets ==
  lastOp = "stop" =>
    /\ engineState = "idle"
    /\ currentBeat = QZero
    /\ currentMeasure = At(score.measureNumbers, 0, 0)
    /\ accompIndex = 0
    /\ engineKind = "adaptive" =>
         /\ ~scoreFollower.isActive
         /\ scoreFollower.currentPosition = 0
         /\ scoreFollower.states = initStates(scoreFollower.baseTempo)

\* stop() has just been called on a playing adaptive engine that had moved
\* off beat 0 after a note was processed
C3_Witness ==
  /\ lastOp = "stop"
  /\ prevState = "playing"
  /\ engineKind = "adaptive"
  /\ nNotes > 0
  /\ timers # <<>>

\* C4: from stop() to the next start() or loadScore(), the engine stays idle
\* at beat 0: no timer callback scheduled earlier changes it.
C4_NothingFiresAfterStop ==
  afterStop => (engineState = "idle" /\ currentBeat = QZero)

\* C5: the engine leaves listening for playing only when the delay set by
\* its latest entry into listening has elapsed in full.
C5_ListeningLastsFullDelay ==
  [][(engineState = "listening" /\ engineState' = "playing")
       => listenFor = ListenDelay(listenBy)]_vars

\* C6: the expiry of a wait-duration timer changes the state only of a
\* waiting engine; listening is entered only from waiting; playing is never
\* followed by listening.
C6_WaitTimerOnlyWhileWaiting ==
  [][/\ (lastOp' = "waitTimer" /\ engineState # "waiting")
          => engineState' = engineState
     /\ (engineState' = "listening" /\ engineState # "listening")
          => engineState = "waiting"
     /\ engineState = "playing" => engineState' # "listening"]_vars

\* C7: when the playing adaptive engine moves to a measure whose annotation
\* carries a wait directive, it enters waiting.
C7_WaitingReentrant ==
  [][(/\ engineKind = "adaptive"
      /\ engineState = "playing"
      /\ lastOp' \in {"tick", "noteon"}
      /\ currentMeasure' # currentMeasure
      /\ HasWait(score, currentMeasure'))
       => engineState' = "waiting"]_vars

\* C8: a wait without duration ends only by a noteon, by a breath, nod or
\* preparation cue of confidence above 0.6, or by stop(); no other cue and no
\* timer ends it.
C8_OpenWaitEndsOnlyOnTrigger ==
  [][(/\ engineState = "waiting"
      /\ OpenWait(score)
      /\ engineState' # "waiting")
       => \/ lastOp' = "noteon"
          \/ lastOp' = "cue" /\ Qualifying(lastCue')
          \/ lastOp' = "stop"]_vars

\* C9: processMidiNote with a noteoff leaves engineState, the tracker's
\* hypotheses and position, the beat and the tempo unchanged.
C9_NoteOffChangesNothing ==
  [][lastOp' = "noteoff"
       => /\ engineState' = engineState
          /\ scoreFollower'.states = scoreFollower.states
          /\ scoreFollower'.currentPosition = scoreFollower.currentPosition
          /\ currentBeat' = currentBeat
          /\ tempo' = tempo]_vars

\* C10: after every processNote that is not a no-op the five probabilities
\* are each at least 0 and sum to 1, and normalizeStates turns an all-zero
\* distribution into the uniform one.
C10_ProbabilitiesNormalized ==
  /\ lastOp = "processNote" =>
       /\ Len(scoreFollower.states) = NUM_TEMPO_HYPOTHESES
       /\ \A t \in DOMAIN scoreFollower.states :
            QLe(QZero, scoreFollower.states[t].probability)
       /\ TotalProbability(scoreFollower) = QOne
  /\ \A t \in DOMAIN scoreFollower.states :
       normalizeStates(ZeroProbabilities(scoreFollower)).states[t].probability
         = Q(1, NUM_TEMPO_HYPOTHESES)

\* the third note of a run was processed, none of the three matching the
\* score, and the hypotheses no longer have equal probabilities
C10_Witness ==
  /\ lastOp = "processNote"
  /\ nNotes = MaxFollowerNotes
  /\ scoreFollower.currentPosition > 0
  /\ \E t \in DOMAIN scoreFollower.states :
       scoreFollower.states[t].probability # Q(1, NUM_TEMPO_HYPOTHESES)

(***************************************************************************)
(* The role resolver on its own: getRoleForMeasure applied to sorted       *)
(* annotation lists and target measure numbers                             *)
(***************************************************************************)
\* the measure numbers of the annotations, ascending
RoleMeasures == <<1, 9, 25>>

\* no annotation for a measure
Absent == Role("absent", "absent", QZero)

\* what a measure of RoleMeasures has: no annotation, an annotation without
\* role, or an annotation with one of three roles
RoleChoices ==
  {Absent, NoRole, Role("follow", "moderate", Q(3, 10)),
   Role("follow", "strong", Q(1, 10)), Role("lead", "moderate", Q(7, 10))}

\* the annotation list, sorted by measureNumber, that gives measure
\* RoleMeasures[i] the choice c[i]
RoleList(c) ==
  LET entry(i) == IF c[i] = Absent THEN <<>>
                  ELSE <<Annotation(RoleMeasures[i], c[i], NoWait)>>
  IN  entry(1) \o entry(2) \o entry(3)

\* the target measure numbers: below, at, between and above the annotations
RoleTargets == {-1, 0, 1, 5, 9, 15, 25, 30}

\* a new engine holding a score with the annotation list, at the target
RoleInit ==
  /\ engineKind = "adaptive"
  /\ \E c \in [1..3 -> RoleChoices], t \in RoleTargets :
       InitEngine([NewEngine EXCEPT
                     !.score = [BaseScore EXCEPT !.measures = RoleList(c)],
                     !.currentMeasure = t])

\* getRoleForMeasure(score.measures, currentMeasure)
RoleLookup ==
  /\ lastOp = "new"
  /\ currentRole' = getRoleForMeasure(score.measures, currentMeasure)
  /\ lastOp' = "getRole"
  /\ UNCHANGED <<score, scoreFollower, accompNotes, engineState, currentMeasure,
                 currentBeat, tempo, leadFollowRatio, playbackTimer, accompIndex,
                 autoPlayTimer, autoPlayBeat, autoPlayMode, mutedParts, timers,
                 noteOutput, listenBy, listenFor, sinceStart, engineKind,
                 lastCue, prevState, afterStop, nLoads, nStarts, nStops, nNotes,
                 nCues, nTempos, nMutes, skipped, stateOutput, sinceEmit,
                 tickEmitAgo, played, returned, lastPart, excluded>>

SpecRole == RoleInit /\ [][RoleLookup]_vars

\* the role of the annotation of greatest measureNumber <= t among those
\* that carry a role; the default role when there is none
ForwardFill(measures, t) ==
  LET with == {i \in DOMAIN measures :
                 measures[i].measureNumber <= t /\ measures[i].role # NoRole}
  IN  IF with = {} THEN DefaultRole
      ELSE measures[CHOOSE i \in with :
                      \A j \in with :
                        measures[j].measureNumber <= measures[i].measureNumber].role

\* roles at measures 1, 9 and 25: follow:moderate, follow:strong, lead:moderate
RoleExample ==
  <<Annotation(1, Role("follow", "moderate", Q(3, 10)), NoWait),
    Annotation(9, Role("follow", "strong", Q(1, 10)), NoWait),
    Annotation(25, Role("lead", "moderate", Q(7, 10)), NoWait)>>

\* C19: on a list sorted by measureNumber, getRoleForMeasure returns the role
\* of the last annotation at or before the target that carries a role, the
\* default role when there is none, and leaves the list as it was.
C19_RoleForwardFill ==
  /\ lastOp = "getRole" =>
       currentRole = ForwardFill(score.measures, currentMeasure)
  /\ getRoleForMeasure(RoleExample, 5) = Role("follow", "moderate", Q(3, 10))
  /\ getRoleForMeasure(RoleExample, 15) = Role("follow", "strong", Q(1, 10))
  /\ getRoleForMeasure(RoleExample, 25) = Role("lead", "moderate", Q(7, 10))
  /\ getRoleForMeasure(RoleExample, 0) = DefaultRole

\* the lookup was made for a measure in a gap, after an annotation without
\* role that follows one with a role other than the default
C19_Witness ==
  /\ lastOp = "getRole"
  /\ currentMeasure = 15
  /\ Len(score.measures) = 3
  /\ score.measures[2].role = NoRole
  /\ currentRole = score.measures[1].role
  /\ currentRole # DefaultRole

\* C12: every hypothesis tempo of the tracker lies within 0.3 and 3.0 times
\* the base tempo, whatever notes, inter-onset times and role it is given.
C12_HypothesisTempoBounded ==
  \A t \in DOMAIN scoreFollower.states :
    /\ QLe(QMul(scoreFollower.baseTempo, Q(3, 10)), scoreFollower.states[t].tempo)
    /\ QLe(scoreFollower.states[t].tempo, QMul(scoreFollower.baseTempo, QInt(3)))

\* after the last note of a run in lead role, a hypothesis has left the
\* initial range upwards: an implied tempo beyond the upper end of the clamp
\* was blended in
C12_Witness ==
  /\ lastOp = "processNote"
  /\ nNotes = MaxFollowerNotes
  /\ currentRole.mode = "lead"
  /\ \E t \in DOMAIN scoreFollower.states :
       QLt(QMul(scoreFollower.baseTempo, Q(13, 10)), scoreFollower.states[t].tempo)

\* C11: in every state of the adaptive engine reached after loadScore, the
\* engine's tempo lies between half and twice the tempo of the loaded score,
\* whatever the tracker estimated and whatever motion cues arrived.
C11_TempoWithinClamp ==
  (engineKind = "adaptive" /\ score.loaded) =>
    /\ QLe(QMul(score.tempo, Q(1, 2)), tempo)
    /\ QLe(tempo, QMul(score.tempo, QInt(2)))

\* a tracker update whose blend exceeded twice the base tempo left the
\* tempo at the upper limit
C11_Witness ==
  /\ engineKind = "adaptive"
  /\ score.loaded
  /\ lastOp = "noteon"
  /\ tempo = QMul(score.tempo, QInt(2))
  /\ QLt(QMul(score.tempo, QInt(2)),
         blendedTempoUnclamped(score.tempo, getBestState(scoreFollower).tempo,
                               leadFollowRatio))

\* a note-on step on which the tracker ran its update: the engine was
\* waiting (the note starts the tracker) or playing or listening with the
\* tracker active, and the tracker holds solo notes
TrackerUpdated ==
  /\ engineKind = "adaptive"
  /\ lastOp' = "noteon"
  /\ Len(scoreFollower.soloNotes) > 0
  /\ \/ engineState = "waiting"
     \/ /\ engineState \in {"playing", "listening"}
        /\ scoreFollower.isActive
        /\ ~scoreFollower.isPaused

\* base x f + tracker x (1 - f), limited to [base / 2, 2 x base]
ClampedBlend(base, tracker, f) ==
  LET blended == QAdd(QMul(base, f), QMul(tracker, QSub(QOne, f)))
      lo == QMul(base, Q(1, 2))
      hi == QMul(base, QInt(2))
  IN  IF QLt(blended, lo) THEN lo ELSE IF QLt(hi, blended) THEN hi ELSE blended

\* C20: on every tracker update the adaptive engine sets its tempo to
\* baseTempo x f + trackerTempo x (1 - f) limited to [0.5, 2] x baseTempo,
\* where f is the factor of the engine's current role; with f = 0.9, a
\* tracker tempo of 200 and a base tempo of 100 the result is 110.
C20_TrackerUpdateBlendsTempo ==
  /\ blendedTempo(QInt(100), QInt(200), Q(9, 10)) = QInt(110)
  /\ [][TrackerUpdated =>
          /\ leadFollowRatio' = currentRole'.factor
          /\ tempo' = ClampedBlend(score'.tempo,
                                   getBestState(scoreFollower').tempo,
                                   currentRole'.factor)]_vars

\* a tracker update under a lead role moved the tempo off the base tempo
\* without reaching a limit
C20_Witness ==
  /\ engineKind = "adaptive"
  /\ lastOp = "noteon"
  /\ currentRole.mode = "lead"
  /\ tempo # score.tempo
  /\ QLt(QMul(score.tempo, Q(1, 2)), tempo)
  /\ QLt(tempo, QMul(score.tempo, QInt(2)))
  /\ tempo = ClampedBlend(score.tempo, getBestState(scoreFollower).tempo,
                          currentRole.factor)

\* the engine is in a state in which its tick advances the beat
TickRunning ==
  IF engineKind = "adaptive" THEN engineState \in {"playing", "listening"}
  ELSE engineState = "playing"

\* a step on which the tracker callback or the tick may schedule notes
SchedulingStep == lastOp' \in {"tick", "noteon"}

\* C13: in both engines the accompaniment-note cursor never decreases
\* across ticks and tracker updates while the engine is running, it never
\* exceeds the number of accompaniment notes, and the only change that
\* lowers it is a reset to 0.
C13_CursorMonotonic ==
  /\ [](accompIndex <= Len(accompNotes))
  /\ [][/\ accompIndex' < accompIndex => accompIndex' = 0
        /\ (SchedulingStep /\ TickRunning /\ TickRunning') =>
             accompIndex' >= accompIndex]_vars

\* C14: loadScore() leaves the accompaniment-note cursor at 0 in both
\* engines, in whatever state it is called.
C14_LoadScoreResetsCursor == lastOp = "loadScore" => accompIndex = 0

\* the notes handed to the note-output callback by the latest step
Emitted(out) == [i \in DOMAIN out |-> out[i].note]

\* the notes of unmuted parts among notes[from + 1 .. to]
RECURSIVE Unmuted(_, _, _, _)
Unmuted(notes, from, to, muted) ==
  IF from >= to \/ from >= Len(notes) THEN <<>>
  ELSE (IF notes[from + 1].partIndex \in muted THEN <<>> ELSE <<notes[from + 1]>>)
       \o Unmuted(notes, from + 1, to, muted)

\* C15: while a part is muted (from mutePart(p) to the next unmutePart(p)
\* or loadScore()) the note-output callback is never invoked with a note of
\* that part, in either engine, and the notes of the other parts that the
\* cursor passes are all emitted.
C15_MutedPartsSilent ==
  /\ [](\A i \in DOMAIN noteOutput : noteOutput[i].note.partIndex \notin mutedParts)
  /\ [][(SchedulingStep /\ accompIndex' >= accompIndex) =>
          Emitted(noteOutput') =
            Unmuted(accompNotes, accompIndex, accompIndex', mutedParts)]_vars

\* a tick with part 1 muted passed a note of part 1 and emitted a note of
\* another part
C15_Witness ==
  /\ lastOp = "tick"
  /\ mutedParts = {1}
  /\ skipped # {}
  /\ noteOutput # <<>>
  /\ \A i \in DOMAIN noteOutput : noteOutput[i].note.partIndex = 2

\* C16: a note the cursor passed while its part was muted is consumed: the
\* cursor stays beyond it and, whatever is unmuted later, the note is not
\* emitted again before the cursor is reset.
C16_SkippedNotesConsumed ==
  /\ [](\A i \in skipped : i <= accompIndex)
  /\ [][(lastOp' # "loadScore" /\ accompIndex' >= accompIndex) =>
          \A i \in skipped : \A j \in DOMAIN noteOutput' :
             noteOutput'[j].note # accompNotes[i]]_vars

\* a tick emits a note of a part that was muted when the cursor passed
\* earlier notes of it and has been unmuted since
C16_Witness ==
  /\ lastOp = "tick"
  /\ engineState = "playing"
  /\ \E i \in skipped : \E j \in DOMAIN noteOutput :
       /\ noteOutput[j].note.partIndex = accompNotes[i].partIndex
       /\ noteOutput[j].note # accompNotes[i]

\* the beat a tick of the running engine computes
BeatAfterTick ==
  IF engineKind = "adaptive"
  THEN QAdd(autoPlayBeat,
            QMul(QDiv(QClamp(QMul(score.tempo, Q(1, 2)), QMul(score.tempo, QInt(2)),
                             tempo),
                      QInt(60000)),
                 QInt(tickMs)))
  ELSE QAdd(currentBeat, QMul(QDiv(tempo, QInt(60000)), QInt(tickMs)))

\* a tick of the running engine whose playback index reaches or passes
\* the length of playbackOrder
EndOfScoreTick ==
  /\ lastOp' = "tick"
  /\ TickRunning
  /\ score.loaded
  /\ QFloor(QDiv(BeatAfterTick, QInt(score.beats))) >= Len(score.playbackOrder)

\* C17: the tick on which floor(currentBeat / beatsPerMeasure) reaches or
\* passes playbackOrder.length ends the run: the engine is idle, currentBeat
\* is 0, currentMeasure is the first slot's measure number, the tick timer
\* is cancelled and that tick emits no note.
C17_EndOfScoreStops ==
  [][EndOfScoreTick =>
       /\ engineState' = "idle"
       /\ currentBeat' = QZero
       /\ currentMeasure' = score.measureNumbers[1]
       /\ autoPlayTimer' = 0
       /\ \A i \in DOMAIN timers' : timers'[i].kind # "tick"
       /\ noteOutput' = <<>>]_vars

\* a run of the long score ended by its own tick, without stop()
C17_Witness ==
  /\ lastOp = "tick"
  /\ prevState = "playing"
  /\ engineState = "idle"
  /\ score = ScoreLong
  /\ nStops = 0
  /\ currentBeat = QZero
  /\ currentMeasure = 1

\* C18: whatever score is loaded (with or without repeats in playbackOrder)
\* and whatever tempo setTempo has set, the fixed-tempo engine that is
\* playing eventually becomes idle, provided its ticks keep firing.
C18_PlaybackTerminates ==
  (engineKind = "fixed" /\ engineState = "playing") ~> engineState = "idle"

\* the score with repeats, played at the slowest tempo setTempo allows, was
\* ended by its own tick
C18_Witness ==
  /\ engineKind = "fixed"
  /\ score = ScoreRepeat
  /\ tempo = QMul(score.tempo, Q(1, 4))
  /\ lastOp = "tick"
  /\ prevState = "playing"
  /\ engineState = "idle"
  /\ nStops = 0


\* ---------------------------------------------------------------------
\* Emission window, order and publication
\* ---------------------------------------------------------------------

\* the look-ahead of the engine under study
LookAheadOf == IF engineKind = "adaptive" THEN lookAhead ELSE PBlookAhead

\* a tick or a tracker update has just run scheduleAccompaniment
AfterScheduling == lastOp \in {"tick", "noteon"}

\* C21: every note a tick or a tracker update emits has its startBeat in
\* [currentBeat, currentBeat + lookAhead), currentBeat being the clock value
\* the emission was made with
C21_EmittedWithinLookAhead ==
  AfterScheduling =>
    \A i \in DOMAIN noteOutput :
      /\ QLe(currentBeat, noteOutput[i].note.startBeat)
      /\ QLt(noteOutput[i].note.startBeat,
             QAdd(currentBeat, QInt(LookAheadOf)))

\* the delay scheduleAccompaniment computes for a note, from the clock and
\* the tempo it runs with
DelayOf(note) ==
  QMax(QZero, QMul(QSub(note.startBeat, currentBeat),
                   QDiv(QInt(60000), tempo)))

\* C22: between two resets of the cursor each accompaniment note is given
\* to the note-output callback at most once and the notes are emitted in
\* non-decreasing startBeat order; each delay is
\* max(0, (startBeat - currentBeat) * 60000 / tempo), never negative
C22_EmittedOnceInOrder ==
  /\ \A i, j \in DOMAIN played :
       i < j => /\ played[i] # played[j]
                /\ QLe(played[i].startBeat, played[j].startBeat)
  /\ AfterScheduling =>
       \A i \in DOMAIN noteOutput :
         /\ noteOutput[i].time = DelayOf(noteOutput[i].note)
         /\ QLe(QZero, noteOutput[i].time)

\* the engineState of the snapshot onStateChange was called with last
LastPublished(out) == out[Len(out)].engineState

\* C23: every change of engineState in the adaptive engine (loadScore, start,
\* stop, note-on or motion-cue trigger, wait-timer or listening-delay expiry,
\* end of score) calls onStateChange, inside the handler that made the change
\* and so before any later transition, and the latest snapshot of that
\* handler carries the new engineState
C23_StateChangePublished ==
  [][(engineKind = "adaptive" /\ engineState' # engineState)
       => /\ stateOutput' # <<>>
          /\ LastPublished(stateOutput') = engineState']_vars

\* the listening delay expired and the snapshot published says "playing"
C23_Witness ==
  /\ engineKind = "adaptive"
  /\ lastOp = "listenTimer"
  /\ prevState = "listening"
  /\ engineState = "playing"
  /\ stateOutput # <<>>
  /\ LastPublished(stateOutput) = "playing"

\* the handlers that publish a snapshot of their own
ExplicitTransitions == {"loadScore", "start", "stop", "setTempo"}

\* C24: in both engines two snapshots published by consecutive auto-play
\* ticks are at least emitIntervalMs = 200 ms apart, currentBeat is still
\* advanced on every tick of the running engine, and loadScore, start (with a
\* score), stop and setTempo always publish
C24_TickPublicationThrottled ==
  [][/\ (lastOp' = "tick" /\ engineState' # "idle" /\ stateOutput' # <<>>)
          => tickEmitAgo >= emitIntervalMs
     /\ (lastOp' = "tick" /\ TickRunning /\ engineState' # "idle")
          => currentBeat' = BeatAfterTick
     /\ (lastOp' \in ExplicitTransitions /\ (lastOp' = "start" => score.loaded))
          => stateOutput' # <<>>]_vars

\* ---------------------------------------------------------------------
\* The muted parts and the part left out at loadScore
\* ---------------------------------------------------------------------

MaxPartsLoads == 1
MaxPartsStarts == 1
MaxPartsMutes == 2

\* part indices given to mutePart, unmutePart and the caller's changes:
\* a part of the score and an index that names no part
PartsIndices == {1, 7}

\* soloPartIndex given to AccompanimentEngine.loadScore, -1 when absent
PartsSoloOptions == {-1, 1}

\* <<excludePartIndex, excludeSolo>> given to PlaybackEngine.loadScore
PartsPBOptions == {<<-1, TRUE>>, <<1, FALSE>>}

PartsScores == {ScoreLong}

PartsLoadScore ==
  LoadScoreWith(PartsScores, MaxPartsLoads, PartsSoloOptions, PartsPBOptions)
PartsStart == StartUpTo(MaxPartsStarts)
PartsMute == MutePartOf(PartsIndices, MaxPartsMutes)
PartsUnmute == UnmutePartOf(PartsIndices, MaxPartsMutes)
PartsModify == ModifyReturnedOf(PartsIndices)

PartsNext ==
  \/ PartsLoadScore
  \/ PartsStart
  \/ Stop
  \/ SchedNote
  \/ PartsMute
  \/ PartsUnmute
  \/ GetMutedParts
  \/ PartsModify
  \/ Advance
  \/ TickFire

SpecParts == Init /\ [][PartsNext]_vars

\* C25: mutedParts changes only through mutePart, which adds the index it is
\* given, unmutePart, which removes it, and loadScore, which empties it;
\* start, stop, ticks, note events and the passing of time leave it
\* unchanged; an index that names no part is accepted like any other;
\* getMutedParts returns the current members, and changing the Set it
\* returned changes nothing isMuted reports
C25_MutedPartsOwned ==
  [][/\ lastOp' = "mutePart" => mutedParts' = mutedParts \cup {lastPart'}
     /\ lastOp' = "unmutePart" => mutedParts' = mutedParts \ {lastPart'}
     /\ lastOp' = "loadScore" => mutedParts' = {}
     /\ lastOp' \notin {"mutePart", "unmutePart", "loadScore"}
          => mutedParts' = mutedParts
     /\ lastOp' = "getMutedParts" => returned'.set = mutedParts
     /\ lastOp' = "modifyReturned"
          => /\ returned'.set # returned.set
             /\ \A p \in PartsIndices \cup {0, 2} :
                  isMuted(Self', p) = isMuted(Self, p)]_vars

\* the caller has changed the Set it was given while the engine plays with
\* the index that names no part muted, and the engine's set is as it was
C25_Witness ==
  /\ lastOp = "modifyReturned"
  /\ engineState = "playing"
  /\ 7 \in mutedParts
  /\ returned.set # mutedParts

\* the notes of the parts of the loaded score other than part index
NotesOfOthers(index) ==
  UNION {{score.parts[p].notes[k] : k \in DOMAIN score.parts[p].notes} :
           p \in {q \in DOMAIN score.parts : q - 1 # index}}

\* C26: after loadScore with soloPartIndex i (adaptive engine) or
\* excludePartIndex i (fixed-tempo engine) no note of part i is given to the
\* note-output callback, and the notes the engine plays from are exactly
\* those of the other parts
C26_ExcludedPartSilent ==
  (score.loaded /\ excluded # -1) =>
    /\ \A i \in DOMAIN noteOutput : noteOutput[i].note.partIndex # excluded
    /\ {accompNotes[i] : i \in DOMAIN accompNotes} = NotesOfOthers(excluded)

\* part 1 was left out at loadScore and a tick has emitted notes of part 0,
\* the part marked as solo in the score, and of part 2
C26_Witness ==
  /\ excluded = 1
  /\ lastOp = "tick"
  /\ \E i \in DOMAIN noteOutput : noteOutput[i].note.partIndex = 0
  /\ \E i \in DOMAIN noteOutput : noteOutput[i].note.partIndex = 2

\* ---------------------------------------------------------------------
\* Loading one score after another
\* ---------------------------------------------------------------------

MaxReloads == 2
MaxReloadStarts == 2
MaxReloadNotes == 2

\* two one-beat measures, the first a pickup numbered 0, with one part that
\* is not marked solo
ScoreNoSolo ==
  [loaded |-> TRUE,
   tempo |-> QInt(600),
   beats |-> 1,
   parts |-> <<Part(FALSE, <<Note(48, QInt(0), 0), Note(50, QInt(1), 0)>>)>>,
   measures |-> <<>>,
   playbackOrder |-> <<0, 1>>,
   measureNumbers |-> <<0, 1>>]

ReloadScores == {ScoreLong, ScoreNoSolo}

ReloadInputs == {Msg("noteon", 62, 50)}

ReloadScore == LoadScoreOf(ReloadScores, MaxReloads)
ReloadStart == StartUpTo(MaxReloadStarts)
ReloadNote == ProcessMidiNoteOf(ReloadInputs, MaxReloadNotes)

ReloadNext ==
  \/ ReloadScore
  \/ ReloadStart
  \/ Stop
  \/ ReloadNote
  \/ Advance
  \/ TickFire

SpecReload == Init /\ [][ReloadNext]_vars

\* the latest loadScore of the adaptive engine found a solo part
SoloFound ==
  IF excluded # -1 THEN excluded < Len(score.parts)
  ELSE FindSolo(score.parts, 1) # -1

\* C27: once the adaptive engine has loaded a score in which no solo part
\* is found, every processNote is a no-op, whatever was loaded before: the
\* hypotheses, the position, the tempo and the clock stay as they are and
\* the tracker callback, which schedules and publishes, is not invoked
C27_NoSoloNotesAreNoOps ==
  [][(engineKind = "adaptive" /\ score.loaded /\ ~SoloFound
        /\ lastOp' = "noteon")
       => /\ scoreFollower'.states = scoreFollower.states
          /\ scoreFollower'.currentPosition = scoreFollower.currentPosition
          /\ tempo' = tempo
          /\ currentBeat' = currentBeat
          /\ autoPlayBeat' = autoPlayBeat
          /\ currentMeasure' = currentMeasure
          /\ noteOutput' = <<>>
          /\ Len(stateOutput') = IF engineState = "waiting" THEN 1 ELSE 0]_vars

\* the hypotheses reset() leaves for base tempo base
UniformStates(base) ==
  [t \in 1..NUM_TEMPO_HYPOTHESES |->
     [position |-> 0,
      tempo |-> QMul(base, QAdd(Q(7, 10), QMul(Q(3, 20), QInt(t - 1)))),
      probability |-> Q(1, NUM_TEMPO_HYPOTHESES)]]

\* the adaptive engine has just loaded a score or stopped, by stop() or at
\* the end of the score
AfterLoadOrStop ==
  /\ engineKind = "adaptive"
  /\ score.loaded
  /\ \/ lastOp \in {"loadScore", "stop"}
     \/ lastOp = "tick" /\ prevState # "idle" /\ engineState = "idle"

\* C28: after every score load and every stop (explicit or at the end of the
\* score) the tracker holds exactly 5 hypotheses at position 0 with
\* probability 1/5 each and tempos spread linearly from 0.7 to 1.3 times the
\* tempo of the loaded score
C28_TrackerReinitialized ==
  AfterLoadOrStop =>
    /\ Len(scoreFollower.states) = 5
    /\ scoreFollower.states = UniformStates(score.tempo)
    /\ scoreFollower.currentPosition = 0

\* C30: after PlaybackEngine.loadScore(score), called in any state, the
\* engine is idle, tempo is score.tempo, currentMeasure is the number of the
\* first slot (0 for a pickup) and currentBeat is 0
C30_LoadScoreResetsPlayback ==
  (engineKind = "fixed" /\ lastOp = "loadScore") =>
    /\ engineState = "idle"
    /\ tempo = score.tempo
    /\ currentMeasure = score.measureNumbers[1]
    /\ currentBeat = QZero
    /\ stateOutput # <<>>
    /\ stateOutput[Len(stateOutput)] =
         [engineState |-> "idle", currentMeasure |-> score.measureNumbers[1],
          currentBeat |-> QZero, tempo |-> score.tempo]

\* ---------------------------------------------------------------------
\* The tempo range of the fixed-tempo engine
\* ---------------------------------------------------------------------

\* the base tempo setTempo clamps around: score?.tempo ?? 120
BaseTempoOf == IF score.loaded THEN score.tempo ELSE QInt(DefaultTempo)

\* bpm limited to [0.25 * base, 4 * base]
Limited(bpm, base) ==
  IF QLt(bpm, QDiv(base, QInt(4))) THEN QDiv(base, QInt(4))
  ELSE IF QLt(QMul(QInt(4), base), bpm) THEN QMul(QInt(4), base)
  ELSE bpm

\* the fixed-tempo engine after loading a score of tempo 50
LoadedAt50 ==
  PBloadScore(NewPlaybackEngine, [BaseScore EXCEPT !.tempo = QInt(50)], -1, FALSE)

\* C29: PlaybackEngine.setTempo(bpm) sets the tempo to bpm clamped to
\* [0.25, 4.0] times the base tempo of the loaded score (12.5 and 200 for a
\* base tempo of 50), and the tempo of the fixed-tempo engine lies in that
\* range in every state with a score loaded
C29_PlaybackTempoClamped ==
  /\ (engineKind = "fixed" /\ score.loaded)
       => /\ QLe(QMul(score.tempo, Q(1, 4)), tempo)
          /\ QLe(tempo, QMul(score.tempo, QInt(4)))
  /\ engineKind = "fixed"
       => \A bpm \in PlayTempos :
            PBsetTempo(Self, bpm).tempo = Limited(bpm, BaseTempoOf)
  /\ PBsetTempo(LoadedAt50, QInt(1)).tempo = Q(25, 2)
  /\ PBsetTempo(LoadedAt50, QInt(10000)).tempo = QInt(200)
  /\ PBsetTempo(LoadedAt50, QInt(80)).tempo = QInt(80)

\* setTempo far above the range has left the playing engine at 4 times the
\* tempo of its score
C29_Witness ==
  /\ engineKind = "fixed"
  /\ lastOp = "setTempo"
  /\ score.loaded
  /\ engineState = "playing"
  /\ tempo = QMul(score.tempo, QInt(4))

\* ---------------------------------------------------------------------
\* Motion cues while playing
\* ---------------------------------------------------------------------

\* tempo + (confidence - 0.5) * 2 limited to [0.7, 1.3] times the base tempo
Nudged(cue) ==
  LET target == QAdd(tempo, QMul(QSub(cue.confidence, Q(1, 2)), QInt(2)))
      low == QMul(BaseTempoOf, Q(7, 10))
      high == QMul(BaseTempoOf, Q(13, 10))
  IN  IF QLt(target, low) THEN low
      ELSE IF QLt(high, target) THEN high
      ELSE target

\* C31: a breath cue received while playing sets the tempo to
\* tempo + (confidence - 0.5) * 2 limited to [0.7, 1.3] times the base tempo,
\* a change of at most 1 BPM; any other cue while playing, and any cue while
\* the engine is not playing, leaves the tempo unchanged
C31_BreathNudgesTempo ==
  [][lastOp' = "cue"
       => IF engineState = "playing" /\ lastCue'.type = "breath"
          THEN /\ tempo' = Nudged(lastCue')
               /\ QLe(QAbs(QSub(tempo', tempo)), QOne)
          ELSE tempo' = tempo]_vars

\* ---------------------------------------------------------------------
\* Clock correction by the tracker
\* ---------------------------------------------------------------------

\* a lies between b and c
Between(a, b, c) == QLe(QMin(b, c), a) /\ QLe(a, QMax(b, c))

\* C32: while the auto-play clock runs, a tracker update with confidence
\* <= 0.3 leaves autoPlayBeat unchanged, and one with confidence > 0.3 sets
\* it to autoPlayBeat * w + trackerBeat * (1 - w) with the weight w in
\* [0, 1], a value between the old clock value and the tracker's beat
C32_ClockCorrectionGated ==
  [][(TrackerUpdated /\ autoPlayMode)
       => LET state == SFstate(scoreFollower')
              w == leadFollowRatio
          IN  IF QLe(state.confidence, Q(3, 10))
              THEN autoPlayBeat' = autoPlayBeat
              ELSE /\ QLe(QZero, w) /\ QLe(w, QOne)
                   /\ autoPlayBeat' =
                        QAdd(QMul(autoPlayBeat, w),
                             QMul(state.currentBeat, QSub(QOne, w)))
                   /\ Between(autoPlayBeat', autoPlayBeat, state.currentBeat)]_vars

\* a confident tracker update has corrected the running clock, which stays
\* off the tracker's beat
C32_Witness ==
  /\ lastOp = "noteon"
  /\ engineState = "playing"
  /\ autoPlayMode
  /\ QLt(Q(3, 10), SFstate(scoreFollower).confidence)
  /\ QLt(QZero, autoPlayBeat)
  /\ autoPlayBeat # SFstate(scoreFollower).currentBeat
  /\ currentBeat = autoPlayBeat

(***************************************************************************)
(* Either engine in and out of its quiet states: a score is loaded while   *)
(* another plays, so that ticks, notes and cues arrive in waiting and in   *)
(* idle                                                                    *)
(***************************************************************************)
MaxQuietLoads == 2
MaxQuietStarts == 1
MaxQuietNotes == 2

QuietScores == {ScoreTimed, ScorePlain}

QuietInputs == {Msg("noteon", 60, 50)}

QuietCues == {Cue("nod", Q(7, 10)), Cue("sway", Q(7, 10))}

QuietLoadScore == LoadScoreOf(QuietScores, MaxQuietLoads)
QuietStart == StartUpTo(MaxQuietStarts)
QuietNote == ProcessMidiNoteOf(QuietInputs, MaxQuietNotes)
QuietCue == MotionCueOf(QuietCues, MaxCues)

QuietNext ==
  \/ QuietLoadScore
  \/ QuietStart
  \/ Stop
  \/ QuietNote
  \/ QuietCue
  \/ Advance
  \/ WaitTimerFire
  \/ ListenTimerFire
  \/ TickFire

SpecQuiet == Init /\ [][QuietNext]_vars

\* the step begins with the engine idle or waiting
BeginsQuiet == engineKind = "adaptive" /\ engineState \in {"idle", "waiting"}

\* the step leaves the beat as it is (start() sets the auto-play clock to
\* it) and the tracker is given no note: it is left as it is or started
\* afresh
StaysQuiet ==
  /\ currentBeat' = currentBeat
  /\ \/ autoPlayBeat' = autoPlayBeat
     \/ lastOp' = "start" /\ autoPlayBeat' = currentBeat
  /\ lastOp' \in {"noteon", "noteoff", "tick", "cue"}
       => scoreFollower' \in {scoreFollower, SFstart(scoreFollower)}

\* stop() resets the beat
StopResets == lastOp' = "stop" /\ currentBeat' = QZero

\* processMidiNote ends the wait: it publishes listening with the beat
\* untouched, and the tracker is given the note after that
NoteEndsWait ==
  /\ engineState = "waiting"
  /\ lastOp' = "noteon"
  /\ engineState' = "listening"
  /\ Len(stateOutput') >= 1
  /\ stateOutput'[1].engineState = "listening"
  /\ stateOutput'[1].currentBeat = currentBeat

\* C33: while engineState is idle, and while it is waiting, the clock does
\* not advance and no note is given to the tracker; currentBeat changes in
\* these states only by the reset to 0 in stop(), whatever ticks, note
\* events or motion cues arrive
C33_QuietStatesAsStated ==
  [][BeginsQuiet => (StaysQuiet \/ StopResets)]_vars

\* C33, amended: the same, except that a note-on arriving in waiting ends
\* the wait: the engine is listening by the time the tracker is given the
\* note and currentBeat follows the tracker
C33_QuietStates ==
  [][BeginsQuiet => (StaysQuiet \/ StopResets \/ NoteEndsWait)]_vars

\* a tick has arrived while waiting, with the clock away from 0
C33_Witness ==
  /\ engineKind = "adaptive"
  /\ lastOp = "tick"
  /\ prevState = "waiting"
  /\ engineState = "waiting"
  /\ currentBeat # QZero

\* ---------------------------------------------------------------------
\* The transition step of the tracker
\* ---------------------------------------------------------------------

\* the inter-onset times of the messages given to the tracker
FollowerDeltas == {msg.deltaMs : msg \in FollowerInputs}

\* the startBeat of the solo note at a position
BeatAt(sf, position) == sf.soloNotes[position + 1].startBeat

\* the tempo of a hypothesis after a step of deltaMs that took it from
\* position before to position after: the tempo implied by the distance
\* between the two, limited to [0.3, 3.0] x baseTempo and blended in at
\* the rate of the role's mode
TempoByDistance(sf, state, after, deltaMs, role) ==
  LET rate == IF role.mode = "follow" THEN Q(3, 10) ELSE Q(1, 10)
      distance == QSub(BeatAt(sf, after), BeatAt(sf, state.position))
      implied == QMul(QDiv(distance, QInt(deltaMs)), QInt(60000))
      low == QMul(sf.baseTempo, Q(3, 10))
      high == QMul(sf.baseTempo, QInt(3))
      limited == IF QLt(implied, low) THEN low
                 ELSE IF QLt(high, implied) THEN high ELSE implied
  IN  QAdd(QMul(state.tempo, QSub(QOne, rate)), QMul(limited, rate))

\* C34: in the transition step each hypothesis's implied tempo is the beat
\* distance between its position before and after the step divided by the
\* wall-clock delta, limited to [0.3, 3.0] x baseTempo and blended into the
\* hypothesis tempo at rate 0.3 in follow mode and 0.1 in lead mode; a
\* hypothesis whose position did not change gets no tempo update
C34_TempoFromDistanceMoved ==
  [][lastOp' = "processNote"
       => \E deltaMs \in FollowerDeltas :
            \A t \in DOMAIN scoreFollower.states :
              LET before == scoreFollower.states[t]
                  after == scoreFollower'.states[t]
              IN  IF after.position = before.position \/ deltaMs <= 0
                  THEN after.tempo = before.tempo
                  ELSE after.tempo =
                         TempoByDistance(scoreFollower, before, after.position,
                                         deltaMs, currentRole)]_vars

\* the positions advanceStates may move a hypothesis at position to
SearchRange(sf, position) ==
  {i \in position..(position + 5) : i < Len(sf.soloNotes)}

\* the beat a hypothesis is predicted at after deltaMs
PredictedBeat(sf, state, deltaMs) ==
  QAdd(BeatAt(sf, state.position),
       QMul(QDiv(state.tempo, QInt(60000)), QInt(deltaMs)))

\* i is the lowest index of the range whose startBeat is closest to beat
IsClosest(sf, range, i, beat) ==
  /\ i \in range
  /\ \A j \in range :
       LET di == QAbs(QSub(BeatAt(sf, i), beat))
           dj == QAbs(QSub(BeatAt(sf, j), beat))
       IN  QLt(di, dj) \/ (di = dj /\ i <= j)

\* C35: between resets each hypothesis's position never decreases, advances
\* by at most 5 notes per note-on and stays a valid index of the solo
\* notes; the new position is the index in [position, position + 5] whose
\* startBeat is closest to the predicted beat, the lowest index on ties
C35_PositionAdvancesToClosest ==
  [][/\ lastOp' # "stop"
       => \A t \in DOMAIN scoreFollower.states :
            scoreFollower'.states[t].position >= scoreFollower.states[t].position
     /\ lastOp' = "processNote"
       => \E deltaMs \in FollowerDeltas :
            \A t \in DOMAIN scoreFollower.states :
              LET before == scoreFollower.states[t]
                  after == scoreFollower'.states[t]
              IN  /\ after.position >= before.position
                  /\ after.position <= before.position + 5
                  /\ after.position >= 0
                  /\ after.position < Len(scoreFollower.soloNotes)
                  /\ IsClosest(scoreFollower,
                               SearchRange(scoreFollower, before.position),
                               after.position,
                               PredictedBeat(scoreFollower, before, deltaMs))]_vars

\* after the first note of a solo part of eight notes, a hypothesis stands
\* five notes further: its predicted beat lies beyond the search
C35_Witness ==
  /\ lastOp = "processNote"
  /\ nNotes = 1
  /\ Len(scoreFollower.soloNotes) > 6
  /\ \E t \in DOMAIN scoreFollower.states : scoreFollower.states[t].position = 5

\* ---------------------------------------------------------------------
\* The role in force
\* ---------------------------------------------------------------------

\* a tick that goes on playing
PlayingTick ==
  /\ engineKind = "adaptive"
  /\ engineState = "playing"
  /\ lastOp' = "tick"
  /\ engineState' = "playing"

\* C36: after every tick and every tracker update while playing,
\* currentRole and leadFollowRatio are those of the directive
\* getRoleForMeasure returns for currentMeasure: the same mode and strength,
\* and leadFollowRatio equal to its factor
C36_RoleOfCurrentMeasure ==
  [][(score.loaded /\ (PlayingTick \/ (TrackerUpdated /\ engineState' = "playing")))
       => LET directive == getRoleForMeasure(score'.measures, currentMeasure')
          IN  /\ currentRole'.mode = directive.mode
              /\ currentRole'.strength = directive.strength
              /\ leadFollowRatio' = directive.factor]_vars

(***************************************************************************)
(* The adaptive engine under updateMeasureAnnotation: a score is loaded    *)
(* whose annotation list is sorted with distinct measure numbers, and      *)
(* annotations for measures in and out of the list are given               *)
(***************************************************************************)
\* what measures 1, 9 and 25 have when the score is loaded
AnnotateChoices == {Absent, NoRole, Role("follow", "strong", Q(1, 10))}

\* the annotations given: without fields, with a role, with a wait and
\* with both, for measures before, in, between and after those of the list
AnnotationInputs ==
  {Annotation(n, r, w) :
     n \in {0, 1, 5, 30},
     r \in {NoRole, Role("lead", "moderate", Q(7, 10))},
     w \in {NoWait, Wait("wait", QInt(2))}}

AnnotateInit ==
  /\ engineKind = "adaptive"
  /\ \E c \in [1..3 -> AnnotateChoices] :
       InitEngine([NewEngine EXCEPT
                     !.score = [BaseScore EXCEPT !.measures = RoleList(c)]])

\* updateMeasureAnnotation with an annotation of inputs
UpdateMeasureAnnotationOf(inputs) ==
  /\ engineKind = "adaptive"
  /\ \E annotation \in inputs :
       Commit(updateMeasureAnnotation(Self, annotation),
              "updateMeasureAnnotation", "none")
  /\ lastCue' = NoCue
  /\ UNCHANGED <<sinceStart, nLoads, nStarts, nStops, nNotes, nCues, nTempos,
                 nMutes>>

UpdateMeasureAnnotation == UpdateMeasureAnnotationOf(AnnotationInputs)

SpecAnnotate == AnnotateInit /\ [][UpdateMeasureAnnotation]_vars

\* ascending by measureNumber, no measure number twice
SortedDistinct(measures) ==
  \A i \in 1..(Len(measures) - 1) :
    measures[i].measureNumber < measures[i + 1].measureNumber

MeasureNumbersOf(measures) == {measures[i].measureNumber : i \in DOMAIN measures}

\* the entry of a measure number the list holds
EntryOf(measures, n) ==
  measures[CHOOSE i \in DOMAIN measures : measures[i].measureNumber = n]

\* after is before updated with the annotation: every other entry is as it
\* was, and the annotation's measure has the fields supplied and, for the
\* others, those it had
UpdatedWith(before, after, annotation) ==
  LET n == annotation.measureNumber
  IN  /\ SortedDistinct(after)
      /\ MeasureNumbersOf(after) = MeasureNumbersOf(before) \cup {n}
      /\ \A k \in MeasureNumbersOf(before) \ {n} :
           EntryOf(after, k) = EntryOf(before, k)
      /\ IF n \in MeasureNumbersOf(before)
         THEN /\ EntryOf(after, n).role =
                   IF annotation.role # NoRole THEN annotation.role
                   ELSE EntryOf(before, n).role
              /\ EntryOf(after, n).wait =
                   IF annotation.wait # NoWait THEN annotation.wait
                   ELSE EntryOf(before, n).wait
         ELSE EntryOf(after, n) = annotation
      /\ annotation.role # NoRole
           => getRoleForMeasure(after, n) = annotation.role

\* C37: for every sequence of updateMeasureAnnotation calls on a score
\* whose annotation list starts sorted with distinct measure numbers, the
\* list stays sorted ascending with at most one entry per measure number;
\* an update for an existing measure overwrites only the fields supplied;
\* and right after an update carrying role r for measure m,
\* getRoleForMeasure(measures, m) returns r
C37_AnnotationsStaySorted ==
  /\ SortedDistinct(score.measures)
  /\ \A annotation \in AnnotationInputs :
       UpdatedWith(score.measures,
                   updateMeasureAnnotation(Self, annotation).score.measures,
                   annotation)

\* after updates, the list holds a new measure between two others and
\* measure 1 has the role it was loaded with and a wait given later
C37_Witness ==
  /\ lastOp = "updateMeasureAnnotation"
  /\ MeasureNumbersOf(score.measures) = {1, 5, 9, 25}
  /\ EntryOf(score.measures, 1) =
       Annotation(1, Role("follow", "strong", Q(1, 10)), Wait("wait", QInt(2)))
  /\ EntryOf(score.measures, 5).role = Role("lead", "moderate", Q(7, 10))

\* ---------------------------------------------------------------------
\* Measure and beat
\* ---------------------------------------------------------------------

\* measureNumbers[playbackOrder[floor(beat / beatsPerMeasure)]]; -1 where the
\* score has no such entry
MeasureOfBeat(sc, beat) ==
  At(sc.measureNumbers,
     At(sc.playbackOrder, QFloor(QDiv(beat, QInt(sc.beats))), -1), -1)

\* C38: whenever a score is loaded, currentMeasure agrees with currentBeat
\* through the playback indirection, currentMeasure =
\* measureNumbers[playbackOrder[floor(currentBeat / beatsPerMeasure)]], in
\* every state of both engines, pickup measures and repeats included
C38_MeasureAgreesWithBeat ==
  score.loaded => currentMeasure = MeasureOfBeat(score, currentBeat)

\* ---------------------------------------------------------------------
\* The tick interval
\* ---------------------------------------------------------------------

\* the intervals of the queue
TickTimers(ts) == {i \in DOMAIN ts : ts[i].kind = "tick"}

\* at most one interval, and the engine holds its handle
OneTickTimer(ts, handle) ==
  /\ Cardinality(TickTimers(ts)) <= 1
  /\ \A i \in TickTimers(ts) : ts[i].id = handle

\* the virtual clock of either engine
ClockBeat == IF engineKind = "adaptive" THEN autoPlayBeat ELSE currentBeat

C40_EmissionOnlyWhilePlaying ==
  noteOutput # <<>> =>
    \/ engineState = "playing"
    \/ engineKind = "adaptive" /\ engineState = "listening"

\* the adaptive engine has emitted a note while listening
C40_Witness ==
  /\ engineKind = "adaptive"
  /\ engineState = "listening"
  /\ lastOp = "noteon"
  /\ noteOutput # <<>>

====
